---- MODULE Spec2Model ----
(***************************************************************************)
(* Resource Store of the control plane: the in-memory, relational (MySQL)  *)
(* and coordinated-KV (etcd) backends behind the Store interface, their    *)
(* watch fan-out, and the clients (goroutines) that call them.             *)
(*                                                                         *)
(* Go objects are pointers: an object a client holds lives in `heap` and   *)
(* is named by a reference (an index of heap, 0 = nil).  The memory        *)
(* backend stores references, the two persistent backends store serialised *)
(* values and build a fresh object on every load.  Events carry pointers.  *)
(***************************************************************************)
EXTENDS Naturals, Integers, Sequences, FiniteSets, TLC

(* ------------------------------ bounds -------------------------------- *)

\* Number of Store calls the clients issue in one behaviour.
MaxOps == 2

\* Capacity of a watch channel.  The source allocates 100 slots
\* (make(chan ResourceEvent, 100)); the model scales the buffer down so that
\* a full channel is reachable within MaxOps calls.
WatchChanCap == 1

\* How many times in a row the same PATCH body is sent.
MaxPatches == 2

\* Store calls the network service and the node reporter may issue between
\* them.
MaxNodeOps == 6

\* Store calls a client and the Pod and Runtime controllers may issue between
\* them.
MaxCtlOps == 3

(* ------------------------------ universe ------------------------------ *)

Backends == {"memory", "mysql", "etcd"}
Procs == {"p1", "p2"}
Chans == {"w1"}
Kinds == {"Pod"}
Namespaces == {"default"}
Names == {"a"}
Labels == {"x", "y"}

Keys == [kind : Kinds, ns : Namespaces, name : Names]

\* The wider universe of the single-caller runs: a Pod of a second
\* namespace and a cluster-scoped Node (namespace "").
OtherNamespace == "other"
NodeKey == [kind |-> "Node", ns |-> "", name |-> "n"]
WideKeys == Keys \cup {[kind |-> "Pod", ns |-> OtherNamespace, name |-> "a"], NodeKey}

AllKinds == Kinds \cup {"Node"}
AllNamespaces == Namespaces \cup {OtherNamespace}
WatchKeys == [kind : AllKinds, ns : AllNamespaces \cup {""}]

\* The namespaces subscribers ask for: "" is the cluster-wide watch every
\* controller opens.
WatchNamespaces == {""}

\* Every channel a run can make: the subscriber's, and the one of a second
\* watch request served at the same time.
AllChans == Chans \cup {"w2"}

\* The single-caller runs also open a watch on one namespace.
WideWatchNamespaces == {"", "default"}

Nil == 0
NoVal == [nil |-> TRUE]

EventAdded == "ADDED"
EventModified == "MODIFIED"
EventDeleted == "DELETED"
EventBookmark == "BOOKMARK"

VARIABLES
    backend,    \* which Store implementation NewStore built
    heap,       \* Seq of object values; a reference is an index
    resources,  \* MemoryStore.resources : key -> reference (Nil = absent)
    version,    \* MemoryStore.version
    table,      \* MySQL rows (all Kinds), in primary-key order
    kv,         \* etcd key space : key -> serialised value or NoVal
    watchChan,  \* etcd native watch stream feeding startWatcher
    clock,      \* last value time.Now().UnixNano() returned
    watchers,   \* watchKey -> Seq of channels
    chq,        \* channel buffers : channel -> Seq of events
    got,        \* what each subscriber has read from its channel, as read
    proc,       \* per goroutine: position in the call and its locals
    opsLeft,    \* calls still to be issued
    commits,    \* number of mutations committed so far (history)
    driver,     \* the ContainerRuntime: running containers and the calls made
    args,       \* arguments of the function under check
    result,     \* what the function has returned, call after call
    ctl,        \* per controller goroutine: position in its loop and its locals
    gateway     \* the API gateway: the request it serves and its own Store instance

\* What lies outside the Store: the container driver of the Runtime
\* controller, and the arguments and results of the functions that are
\* checked on their own.
auxVars == <<driver, args, result, ctl, gateway>>

vars == <<backend, heap, resources, version, table, kv, watchChan, clock,
          watchers, chq, got, proc, opsLeft, commits, driver, args, result, ctl,
          gateway>>

storeVars == <<resources, version, table, kv, watchChan, clock>>

(* ------------------------------ helpers ------------------------------- *)

KeyOf(v) == [kind |-> v.kind, ns |-> v.ns, name |-> v.name]

\* A manifest as a client writes it: resourceVersion, uid and
\* creationTimestamp (ct) empty, written 0.
NewVal(k, lbl) ==
    [kind |-> k.kind, ns |-> k.ns, name |-> k.name, rv |-> 0, uid |-> 0, ct |-> 0,
     label |-> lbl]

\* The value a client puts into resourceVersion, uid and creationTimestamp
\* when it fills them in itself; no clock reading of a run comes near it.
ClientStamp == 9

\* A manifest that arrives with the three fields filled in by the client.
StampedVal(k, lbl) ==
    [NewVal(k, lbl) EXCEPT !.rv = ClientStamp, !.uid = ClientStamp, !.ct = ClientStamp]

\* The request bodies of the single-caller runs' Updates: the Pod of the
\* main runs, without and with metadata of the client's own.
UpdateBodies == {NewVal(k, "x") : k \in Keys} \cup {StampedVal(k, "x") : k \in Keys}

\* The manifests of the single-caller runs.
WideManifests == {NewVal(k, "x") : k \in WideKeys} \cup {StampedVal(k, "x") : k \in WideKeys}

\* An event names its objects by pointer.  Ptr(r) is a pointer into the heap;
\* Fresh(v) is a pointer to an object that was built for this event alone
\* (parsed from a row or from a KV value) and that nothing else refers to.
Ptr(r) == [ref |-> r]
Fresh(v) == [val |-> v]
NilPtr == Ptr(Nil)

Deref(q) ==
    IF "val" \in DOMAIN q THEN q.val
    ELSE IF q.ref = Nil THEN NoVal ELSE heap[q.ref]

IsNode(kind) == kind = "Node"

IdleProc == [pc |-> "idle", op |-> "none", obj |-> Nil, key |-> NoVal, old |-> NilPtr,
             data |-> NoVal, mid |-> 0, res |-> "none", cur |-> Nil]

\* A goroutine entering a Store call: the locals of the previous call are gone,
\* the object it holds stays.
Enter(p, op, o, k) ==
    [IdleProc EXCEPT !.op = op, !.obj = o, !.key = k, !.cur = proc[p].cur]

(* ------------------------------ fan-out ------------------------------- *)

\* A fan-out that looks at the event's own watchKey alone and leaves the
\* global subscribers out.
TargetsOwnOnly(kind, ns) == watchers[[kind |-> kind, ns |-> ns]]

\* watchKey: the subscribers of (gvk, namespace), then, for a namespaced
\* event, the global subscribers (namespace "").
Targets(kind, ns) ==
    watchers[[kind |-> kind, ns |-> ns]]
        \o (IF ns # "" THEN watchers[[kind |-> kind, ns |-> ""]] ELSE <<>>)

\* A plain send (ch <- event, no default branch) would be ready only when
\* the buffer has a free slot.
SendReadyBlocking(buf) == Len(buf) < WatchChanCap

\* select { case ch <- event: default: } has a default branch: the sender
\* is always ready to go on, whatever the buffer holds.
SendReady(buf) == TRUE

\* The send itself: the event enters the buffer when a slot is free and is
\* skipped otherwise.
Send(buf, ev) == IF Len(buf) < WatchChanCap THEN Append(buf, ev) ELSE buf

RECURSIVE NotifyAll(_, _, _)
NotifyAll(q, ts, ev) ==
    IF ts = <<>> THEN q
    ELSE NotifyAll([q EXCEPT ![Head(ts)] = Send(@, ev)], Tail(ts), ev)

\* notifyWatchers: the channel buffers after the event was offered to every
\* target, in registration order.
notifyWatchers(kind, ns, ev) == NotifyAll(chq, Targets(kind, ns), ev)

\* The loop of notifyWatchers can run to its end.
CanNotify(kind, ns) ==
    \A i \in 1..Len(Targets(kind, ns)) : SendReady(chq[Targets(kind, ns)[i]])

\* A ResourceEvent {Type, Object, OldObj}.  mid, op and pre are history
\* carried along for the properties: the commit number of the mutation the
\* event reports, the Store call that emitted it, and the stored value the
\* mutation replaced.
Event(t, o, old, m, op, pre) ==
    [type |-> t, obj |-> o, old |-> old, mid |-> m, op |-> op, pre |-> pre]

(* --------------------------- stored state ----------------------------- *)

\* Rows of the relational table that a name/namespace query matches.
RowsOf(k) == SelectSeq(table, LAMBDA r : KeyOf(r) = k)

\* What the backend holds under a key: the value a Get would load.
StoredVal(k) ==
    CASE backend = "memory" -> Deref(Ptr(resources[k]))
      [] backend = "mysql"  -> IF RowsOf(k) = <<>> THEN NoVal ELSE Head(RowsOf(k))
      [] backend = "etcd"   -> kv[k]

Exists(k) == StoredVal(k) # NoVal

NextMid == commits + 1

\* The call of goroutine p is over with result r.
Return(p, r) ==
    [proc EXCEPT ![p].pc = "idle", ![p].res = r, ![p].old = NilPtr, ![p].data = NoVal]

CanCall(p) == proc[p].pc = "idle" /\ opsLeft > 0

(* ------------------------------ clients ------------------------------- *)

\* A holder of an object changes it in place (pod.Labels = ...) and does not
\* call Update.
ClientModify(p) ==
    /\ proc[p].pc = "idle"
    /\ proc[p].cur # Nil
    /\ heap[proc[p].cur].label = "x"
    /\ heap' = [heap EXCEPT ![proc[p].cur].label = "y"]
    /\ UNCHANGED <<auxVars, backend, storeVars, watchers, chq, got, proc, opsLeft, commits>>

(* ---------------------------- time.Now() ------------------------------ *)

\* time.Now(): creationTimestamp on every backend, and resourceVersion and
\* uid (UnixNano) on the persistent ones, come from the wall clock.  Every
\* reading is later than the one before.
Now == clock + 1


(* --------------------------- MemoryStore ------------------------------ *)
\* Every method holds s.mu from its first to its last statement, so a call
\* is one step.

\* Create of the object the client has built from manifest v.  Each of
\* resourceVersion, uid and creationTimestamp is filled in only where the
\* object has none.
MemCreateObj(p, v) ==
    /\ backend = "memory"
    /\ CanCall(p)
    /\ opsLeft' = opsLeft - 1
    /\ LET k == KeyOf(v)
           o == Len(heap) + 1
           h == Append(heap, v)
           me == [Enter(p, "Create", o, k) EXCEPT !.cur = o]
       IN IF resources[k] # Nil
          THEN /\ proc' = [proc EXCEPT ![p] = [me EXCEPT !.res = "AlreadyExists"]]
               /\ heap' = h
               /\ UNCHANGED <<resources, version, clock, chq, commits>>
          ELSE /\ CanNotify(k.kind, k.ns)
               /\ version' = version + 1
               /\ clock' = Now
               /\ heap' = [h EXCEPT ![o].rv = IF @ = 0 THEN version + 1 ELSE @,
                                    ![o].ct = IF @ = 0 THEN Now ELSE @,
                                    ![o].uid = IF @ = 0 THEN version + 1 ELSE @]
               /\ resources' = [resources EXCEPT ![k] = o]
               /\ chq' = notifyWatchers(k.kind, k.ns,
                             Event(EventAdded, Ptr(o), NilPtr, NextMid, "Create", NoVal))
               /\ commits' = NextMid
               /\ proc' = [proc EXCEPT ![p] = [me EXCEPT !.res = "ok", !.mid = NextMid]]
    /\ UNCHANGED <<auxVars, backend, table, kv, watchChan, watchers, got>>

\* Create of a manifest the client has just built (no resourceVersion, no
\* uid, no creationTimestamp).
MemCreate(p, k) == MemCreateObj(p, NewVal(k, "x"))

\* Update with object o of heap h, the heap as the caller has left it.
MemUpdateOf(p, o, h) ==
    /\ backend = "memory"
    /\ CanCall(p)
    /\ opsLeft' = opsLeft - 1
    /\ LET k == KeyOf(h[o])
           oldObj == resources[k]
           me == [Enter(p, "Update", o, k) EXCEPT !.cur = o]
       IN IF oldObj = Nil
          THEN /\ proc' = [proc EXCEPT ![p] = [me EXCEPT !.res = "NotFound"]]
               /\ heap' = h
               /\ UNCHANGED <<resources, version, chq, commits>>
          ELSE /\ CanNotify(k.kind, k.ns)
               /\ version' = version + 1
               /\ heap' = [h EXCEPT ![o].rv = version + 1]
               /\ resources' = [resources EXCEPT ![k] = o]
               /\ chq' = notifyWatchers(k.kind, k.ns,
                             Event(EventModified, Ptr(o), Ptr(oldObj), NextMid, "Update",
                                   h[oldObj]))
               /\ commits' = NextMid
               /\ proc' = [proc EXCEPT ![p] = [me EXCEPT !.res = "ok", !.mid = NextMid]]
    /\ UNCHANGED <<auxVars, backend, table, kv, watchChan, clock, watchers, got>>

\* Update with the object the client holds.
MemUpdate(p) == proc[p].cur # Nil /\ MemUpdateOf(p, proc[p].cur, heap)

\* Update with an object built for the call from manifest v (the gateway
\* parses the request body and passes the result on).
MemUpdateBody(p, v) == MemUpdateOf(p, Len(heap) + 1, Append(heap, v))

MemDelete(p, k) ==
    /\ backend = "memory"
    /\ CanCall(p)
    /\ opsLeft' = opsLeft - 1
    /\ LET o == resources[k]
           me == Enter(p, "Delete", Nil, k)
       IN IF o = Nil
          THEN /\ proc' = [proc EXCEPT ![p] = [me EXCEPT !.res = "NotFound"]]
               /\ UNCHANGED <<resources, chq, commits>>
          ELSE /\ CanNotify(k.kind, k.ns)
               /\ resources' = [resources EXCEPT ![k] = Nil]
               /\ chq' = notifyWatchers(k.kind, k.ns,
                             Event(EventDeleted, Ptr(o), NilPtr, NextMid, "Delete", heap[o]))
               /\ commits' = NextMid
               /\ proc' = [proc EXCEPT ![p] = [me EXCEPT !.res = "ok", !.mid = NextMid]]
    /\ UNCHANGED <<auxVars, backend, heap, version, table, kv, watchChan, clock, watchers, got>>

\* Get hands out the stored pointer itself.
MemGet(p, k) ==
    /\ backend = "memory"
    /\ CanCall(p)
    /\ opsLeft' = opsLeft - 1
    /\ LET o == resources[k]
           me == Enter(p, "Get", Nil, k)
       IN IF o = Nil
          THEN proc' = [proc EXCEPT ![p] = [me EXCEPT !.res = "NotFound"]]
          ELSE proc' = [proc EXCEPT ![p] = [me EXCEPT !.res = "ok", !.cur = o]]
    /\ UNCHANGED <<auxVars, backend, heap, storeVars, watchers, chq, got, commits>>

(* ---------------------------- MySQLStore ------------------------------ *)
\* No lock is held across a method: each database statement is a step of
\* its own and other goroutines run in between.

\* A lookup by name alone, whatever the row's namespace.
MyFirstByName(k) ==
    IF SelectSeq(table, LAMBDA r : r.kind = k.kind /\ r.name = k.name) = <<>> THEN NoVal
    ELSE Head(SelectSeq(table, LAMBDA r : r.kind = k.kind /\ r.name = k.name))

\* loadPod / loadGenericResource: First() of the rows matching name and
\* namespace, rebuilt as a fresh object.
MyFirst(k) == IF RowsOf(k) = <<>> THEN NoVal ELSE Head(RowsOf(k))

\* Where("name = ? AND namespace = ?").Delete(...)
MyDeleteRows(k) == SelectSeq(table, LAMBDA r : KeyOf(r) # k)

\* Create, up to the existence check: Count() of the rows with that name and
\* namespace (skipped for Node), then resourceVersion and uid are filled in
\* where the object has none.
MyCreateCheckObj(p, v) ==
    /\ backend = "mysql"
    /\ CanCall(p)
    /\ opsLeft' = opsLeft - 1
    /\ LET k == KeyOf(v)
           o == Len(heap) + 1
           h == Append(heap, v)
           me == [Enter(p, "Create", o, k) EXCEPT !.cur = o]
       IN IF ~IsNode(k.kind) /\ RowsOf(k) # <<>>
          THEN /\ proc' = [proc EXCEPT ![p] = [me EXCEPT !.res = "AlreadyExists"]]
               /\ heap' = h
               /\ UNCHANGED clock
          ELSE /\ clock' = Now
               /\ heap' = [h EXCEPT ![o].rv = IF @ = 0 THEN Now ELSE @,
                                    ![o].ct = IF @ = 0 THEN Now ELSE @,
                                    ![o].uid = IF @ = 0 THEN Now ELSE @]
               /\ proc' = [proc EXCEPT ![p] = [me EXCEPT !.pc = "save"]]
    /\ UNCHANGED <<auxVars, backend, resources, version, table, kv, watchChan, watchers, chq, got,
                   commits>>

\* The same for a manifest the client has just built.
MyCreateCheck(p, k) == MyCreateCheckObj(p, NewVal(k, "x"))

\* The same check when Update re-creates the object it has just deleted.
MyRecreateCheck(p) ==
    /\ backend = "mysql"
    /\ proc[p].pc = "recreate"
    /\ LET o == proc[p].obj
           k == proc[p].key
       IN IF ~IsNode(k.kind) /\ RowsOf(k) # <<>>
          THEN /\ proc' = Return(p, "Error")
               /\ UNCHANGED <<heap, clock>>
          ELSE /\ clock' = Now
               /\ heap' = [heap EXCEPT ![o].rv = IF @ = 0 THEN Now ELSE @,
                                       ![o].ct = IF @ = 0 THEN Now ELSE @,
                                       ![o].uid = IF @ = 0 THEN Now ELSE @]
               /\ proc' = [proc EXCEPT ![p].pc = "save"]
    /\ UNCHANGED <<auxVars, backend, resources, version, table, kv, watchChan, watchers, chq, got,
                   opsLeft, commits>>

\* The positions of the rows a statement on the table of row's Kind would
\* reject row for: uid carries a unique index, per table.
UidClash(row, except) ==
    {i \in 1..Len(table) : /\ i \notin except
                           /\ table[i].kind = row.kind
                           /\ table[i].uid = row.uid}

\* The positions of the rows saveNode's lookup (Where name = ?) matches.
NodeRows(row) ==
    {i \in 1..Len(table) : table[i].kind = row.kind /\ table[i].name = row.name}

\* savePod and its siblings: db.Create(&resource) of the row built from the
\* object as it is now.  saveNode looks the name up first and, when a row
\* is there, overwrites it (Save) keeping its id and its CreatedAt.
MySave(p) ==
    /\ backend = "mysql"
    /\ proc[p].pc = "save"
    /\ LET row == heap[proc[p].obj]
           at == IF IsNode(row.kind) /\ NodeRows(row) # {}
                 THEN CHOOSE i \in NodeRows(row) : \A j \in NodeRows(row) : i <= j
                 ELSE 0
       IN IF UidClash(row, {at}) # {}
          THEN /\ proc' = Return(p, "Error")
               /\ UNCHANGED <<table, commits>>
          ELSE /\ table' = IF at = 0 THEN Append(table, row)
                           ELSE [table EXCEPT ![at] = [row EXCEPT !.ct = table[at].ct]]
               /\ commits' = NextMid
               /\ proc' = [proc EXCEPT ![p].pc = "added", ![p].mid = NextMid]
    /\ UNCHANGED <<auxVars, backend, heap, resources, version, kv, watchChan, clock, watchers, chq,
                   got, opsLeft>>

\* Create's notifyWatchers(EventAdded); Create then returns nil, to its
\* caller or to the Update that called it.
MyNotifyAdded(p) ==
    /\ backend = "mysql"
    /\ proc[p].pc = "added"
    /\ CanNotify(proc[p].key.kind, proc[p].key.ns)
    /\ chq' = notifyWatchers(proc[p].key.kind, proc[p].key.ns,
                  Event(EventAdded, Ptr(proc[p].obj), NilPtr, proc[p].mid, proc[p].op, NoVal))
    /\ proc' = IF proc[p].op = "Update"
               THEN [proc EXCEPT ![p].pc = "modified"]
               ELSE Return(p, "ok")
    /\ UNCHANGED <<auxVars, backend, heap, storeVars, watchers, got, opsLeft, commits>>

\* Update, up to reading the old resource through Get; the new
\* resourceVersion is stamped on the caller's object.
MyUpdateGetOf(p, o, h) ==
    /\ backend = "mysql"
    /\ CanCall(p)
    /\ opsLeft' = opsLeft - 1
    /\ LET k == KeyOf(h[o])
           me == [Enter(p, "Update", o, k) EXCEPT !.cur = o]
       IN IF MyFirst(k) = NoVal
          THEN /\ proc' = [proc EXCEPT ![p] = [me EXCEPT !.res = "NotFound"]]
               /\ heap' = h
               /\ UNCHANGED clock
          ELSE /\ clock' = Now
               /\ heap' = [h EXCEPT ![o].rv = Now]
               /\ proc' = [proc EXCEPT ![p] = [me EXCEPT !.pc = "delold",
                                                         !.old = Fresh(MyFirst(k))]]
    /\ UNCHANGED <<auxVars, backend, resources, version, table, kv, watchChan, watchers, chq, got,
                   commits>>

\* With the object the client holds, and with one built from manifest v.
MyUpdateGet(p) == proc[p].cur # Nil /\ MyUpdateGetOf(p, proc[p].cur, heap)

MyUpdateGetBody(p, v) == MyUpdateGetOf(p, Len(heap) + 1, Append(heap, v))

\* Update deletes the old rows, then calls Create.
MyUpdateDelete(p) ==
    /\ backend = "mysql"
    /\ proc[p].pc = "delold"
    /\ table' = MyDeleteRows(proc[p].key)
    /\ proc' = [proc EXCEPT ![p].pc = "recreate"]
    /\ UNCHANGED <<auxVars, backend, heap, resources, version, kv, watchChan, clock, watchers, chq,
                   got, opsLeft, commits>>

\* Update's own notifyWatchers(EventModified), after Create returned.
MyNotifyModified(p) ==
    /\ backend = "mysql"
    /\ proc[p].pc = "modified"
    /\ CanNotify(proc[p].key.kind, proc[p].key.ns)
    /\ chq' = notifyWatchers(proc[p].key.kind, proc[p].key.ns,
                  Event(EventModified, Ptr(proc[p].obj), proc[p].old, proc[p].mid, "Update",
                        Deref(proc[p].old)))
    /\ proc' = Return(p, "ok")
    /\ UNCHANGED <<auxVars, backend, heap, storeVars, watchers, got, opsLeft, commits>>

\* Delete, up to loading the resource through Get.
MyDeleteGet(p, k) ==
    /\ backend = "mysql"
    /\ CanCall(p)
    /\ opsLeft' = opsLeft - 1
    /\ LET me == Enter(p, "Delete", Nil, k)
       IN IF MyFirst(k) = NoVal
          THEN proc' = [proc EXCEPT ![p] = [me EXCEPT !.res = "NotFound"]]
          ELSE proc' = [proc EXCEPT ![p] = [me EXCEPT !.pc = "delete",
                                                      !.old = Fresh(MyFirst(k))]]
    /\ UNCHANGED <<auxVars, backend, heap, storeVars, watchers, chq, got, commits>>

\* The DELETE statement; it reports no error when it matches no row.
MyDeleteRow(p) ==
    /\ backend = "mysql"
    /\ proc[p].pc = "delete"
    /\ table' = MyDeleteRows(proc[p].key)
    /\ commits' = NextMid
    /\ proc' = [proc EXCEPT ![p].pc = "deleted", ![p].mid = NextMid,
                            ![p].data = MyFirst(proc[p].key)]
    /\ UNCHANGED <<auxVars, backend, heap, resources, version, kv, watchChan, clock, watchers, chq,
                   got, opsLeft>>

MyNotifyDeleted(p) ==
    /\ backend = "mysql"
    /\ proc[p].pc = "deleted"
    /\ CanNotify(proc[p].key.kind, proc[p].key.ns)
    /\ chq' = notifyWatchers(proc[p].key.kind, proc[p].key.ns,
                  Event(EventDeleted, proc[p].old, NilPtr, proc[p].mid, "Delete",
                        proc[p].data))
    /\ proc' = Return(p, "ok")
    /\ UNCHANGED <<auxVars, backend, heap, storeVars, watchers, got, opsLeft, commits>>

\* Get builds a fresh object from the row.
MyGet(p, k) ==
    /\ backend = "mysql"
    /\ CanCall(p)
    /\ opsLeft' = opsLeft - 1
    /\ LET me == Enter(p, "Get", Nil, k)
       IN IF MyFirst(k) = NoVal
          THEN /\ proc' = [proc EXCEPT ![p] = [me EXCEPT !.res = "NotFound"]]
               /\ UNCHANGED heap
          ELSE /\ heap' = Append(heap, MyFirst(k))
               /\ proc' = [proc EXCEPT ![p] = [me EXCEPT !.res = "ok",
                                                         !.cur = Len(heap) + 1]]
    /\ UNCHANGED <<auxVars, backend, storeVars, watchers, chq, got, commits>>

(* ----------------------------- EtcdStore ------------------------------ *)
\* No lock and no transaction: each client.Get / Put / Delete is a step of
\* its own.  The value written is json.Marshal(obj), taken before the new
\* resourceVersion is set on the object.

\* One event of the native watch on the "/kubernetes" prefix.
KvEvent(isCreate, val, k, m, op) ==
    [create |-> isCreate, value |-> val, key |-> k, mid |-> m, op |-> op]

\* Create, up to the existence check and the stamping of the object.
EtCreateCheckObj(p, v) ==
    /\ backend = "etcd"
    /\ CanCall(p)
    /\ opsLeft' = opsLeft - 1
    /\ LET k == KeyOf(v)
           o == Len(heap) + 1
           h == Append(heap, v)
           me == [Enter(p, "Create", o, k) EXCEPT !.cur = o]
       IN IF kv[k] # NoVal
          THEN /\ proc' = [proc EXCEPT ![p] = [me EXCEPT !.res = "AlreadyExists"]]
               /\ heap' = h
               /\ UNCHANGED clock
          ELSE /\ clock' = Now
               /\ heap' = [h EXCEPT ![o].rv = IF @ = 0 THEN Now ELSE @,
                                    ![o].ct = IF @ = 0 THEN Now ELSE @,
                                    ![o].uid = IF @ = 0 THEN Now ELSE @]
               /\ proc' = [proc EXCEPT ![p] = [me EXCEPT !.pc = "put", !.data = h[o]]]
    /\ UNCHANGED <<auxVars, backend, resources, version, table, kv, watchChan, watchers, chq, got,
                   commits>>

\* The same for a manifest the client has just built.
EtCreateCheck(p, k) == EtCreateCheckObj(p, NewVal(k, "x"))

\* Update, up to reading and parsing the old value; data is marshalled, then
\* the new resourceVersion is set.
EtUpdateGetOf(p, o, h) ==
    /\ backend = "etcd"
    /\ CanCall(p)
    /\ opsLeft' = opsLeft - 1
    /\ LET k == KeyOf(h[o])
           me == [Enter(p, "Update", o, k) EXCEPT !.cur = o]
       IN IF kv[k] = NoVal
          THEN /\ proc' = [proc EXCEPT ![p] = [me EXCEPT !.res = "NotFound"]]
               /\ heap' = h
               /\ UNCHANGED clock
          ELSE /\ clock' = Now
               /\ heap' = [h EXCEPT ![o].rv = Now]
               /\ proc' = [proc EXCEPT ![p] = [me EXCEPT !.pc = "put", !.data = h[o],
                                                         !.old = Fresh(kv[k])]]
    /\ UNCHANGED <<auxVars, backend, resources, version, table, kv, watchChan, watchers, chq, got,
                   commits>>

\* With the object the client holds, and with one built from manifest v.
EtUpdateGet(p) == proc[p].cur # Nil /\ EtUpdateGetOf(p, proc[p].cur, heap)

EtUpdateGetBody(p, v) == EtUpdateGetOf(p, Len(heap) + 1, Append(heap, v))

\* client.Put of Create and of Update; etcd reports it on the watch stream.
EtPut(p) ==
    /\ backend = "etcd"
    /\ proc[p].pc = "put"
    /\ LET k == proc[p].key
       IN /\ kv' = [kv EXCEPT ![k] = proc[p].data]
          /\ watchChan' = Append(watchChan,
                 KvEvent(kv[k] = NoVal, proc[p].data, k, NextMid, proc[p].op))
          /\ commits' = NextMid
          /\ proc' = [proc EXCEPT ![p].pc = "notify", ![p].mid = NextMid,
                                  ![p].data = kv[k]]
    /\ UNCHANGED <<auxVars, backend, heap, resources, version, table, clock, watchers, chq, got,
                   opsLeft>>

\* client.Put comes back with an error (the backend cannot be reached):
\* nothing is written and the method returns the wrapped error.
EtPutFail(p) ==
    /\ backend = "etcd"
    /\ proc[p].pc = "put"
    /\ proc' = Return(p, "Error")
    /\ UNCHANGED <<auxVars, backend, heap, storeVars, watchers, chq, got, opsLeft, commits>>

\* The method's own notifyWatchers: EventAdded for Create, EventModified
\* with the parsed old object for Update, EventDeleted for Delete.
EtNotify(p) ==
    /\ backend = "etcd"
    /\ proc[p].pc = "notify"
    /\ CanNotify(proc[p].key.kind, proc[p].key.ns)
    /\ chq' = notifyWatchers(proc[p].key.kind, proc[p].key.ns,
                  CASE proc[p].op = "Create" ->
                           Event(EventAdded, Ptr(proc[p].obj), NilPtr, proc[p].mid,
                                 "Create", proc[p].data)
                    [] proc[p].op = "Update" ->
                           Event(EventModified, Ptr(proc[p].obj), proc[p].old,
                                 proc[p].mid, "Update", proc[p].data)
                    [] OTHER ->
                           Event(EventDeleted, proc[p].old, NilPtr, proc[p].mid,
                                 "Delete", proc[p].data))
    /\ proc' = Return(p, "ok")
    /\ UNCHANGED <<auxVars, backend, heap, storeVars, watchers, got, opsLeft, commits>>

\* Delete, up to reading and parsing the value.
EtDeleteGet(p, k) ==
    /\ backend = "etcd"
    /\ CanCall(p)
    /\ opsLeft' = opsLeft - 1
    /\ LET me == Enter(p, "Delete", Nil, k)
       IN IF kv[k] = NoVal
          THEN proc' = [proc EXCEPT ![p] = [me EXCEPT !.res = "NotFound"]]
          ELSE proc' = [proc EXCEPT ![p] = [me EXCEPT !.pc = "delete",
                                                      !.old = Fresh(kv[k])]]
    /\ UNCHANGED <<auxVars, backend, heap, storeVars, watchers, chq, got, commits>>

\* client.Delete; etcd reports a delete (key only, no value) when the key
\* was there.
EtDeleteKey(p) ==
    /\ backend = "etcd"
    /\ proc[p].pc = "delete"
    /\ LET k == proc[p].key
       IN /\ kv' = [kv EXCEPT ![k] = NoVal]
          /\ watchChan' = IF kv[k] = NoVal THEN watchChan
                          ELSE Append(watchChan, KvEvent(FALSE, NoVal, k, NextMid, "Delete"))
          /\ commits' = NextMid
          /\ proc' = [proc EXCEPT ![p].pc = "notify", ![p].mid = NextMid,
                                  ![p].data = kv[k]]
    /\ UNCHANGED <<auxVars, backend, heap, resources, version, table, clock, watchers, chq, got,
                   opsLeft>>

\* Get parses the stored value into a fresh object.
EtGet(p, k) ==
    /\ backend = "etcd"
    /\ CanCall(p)
    /\ opsLeft' = opsLeft - 1
    /\ LET me == Enter(p, "Get", Nil, k)
       IN IF kv[k] = NoVal
          THEN /\ proc' = [proc EXCEPT ![p] = [me EXCEPT !.res = "NotFound"]]
               /\ UNCHANGED heap
          ELSE /\ heap' = Append(heap, kv[k])
               /\ proc' = [proc EXCEPT ![p] = [me EXCEPT !.res = "ok",
                                                         !.cur = Len(heap) + 1]]
    /\ UNCHANGED <<auxVars, backend, storeVars, watchers, chq, got, commits>>

\* startWatcher, one turn of its loop: the next native event is parsed and
\* fanned out; an event whose value does not parse (a delete carries none)
\* is skipped.
startWatcher ==
    /\ backend = "etcd"
    /\ watchChan # <<>>
    /\ watchChan' = Tail(watchChan)
    /\ LET e == Head(watchChan)
       IN IF e.value = NoVal
          THEN UNCHANGED chq
          ELSE /\ CanNotify(e.value.kind, e.value.ns)
               /\ chq' = notifyWatchers(e.value.kind, e.value.ns,
                             Event(IF e.create THEN EventAdded ELSE EventModified,
                                   Fresh(e.value), NilPtr, e.mid, e.op, NoVal))
    /\ UNCHANGED <<auxVars, backend, heap, resources, version, table, kv, clock, watchers, got,
                   proc, opsLeft, commits>>

(* ------------------------------ watching ------------------------------ *)

\* Watch: a fresh buffered channel is appended to the subscribers of the
\* watchKey.  resourceVersion is not looked at.
Watch(c, kind, ns) ==
    /\ \A wk \in WatchKeys : \A i \in 1..Len(watchers[wk]) : watchers[wk][i] # c
    /\ watchers' = [watchers EXCEPT ![[kind |-> kind, ns |-> ns]] = Append(@, c)]
    /\ UNCHANGED <<auxVars, backend, heap, storeVars, chq, got, proc, opsLeft, commits>>

\* A subscriber takes the next event off its channel and looks at it: got
\* records the event with the objects as they read at that moment.
Recv(c) ==
    /\ chq[c] # <<>>
    /\ LET ev == Head(chq[c])
       IN got' = [got EXCEPT ![c] = Append(@, [type |-> ev.type, mid |-> ev.mid,
                       op |-> ev.op, pre |-> ev.pre,
                       obj |-> Deref(ev.obj), old |-> Deref(ev.old)])]
    /\ chq' = [chq EXCEPT ![c] = Tail(@)]
    /\ UNCHANGED <<auxVars, backend, heap, storeVars, watchers, proc, opsLeft, commits>>

(* ---------------------------- specification --------------------------- *)

\* No container runs and the driver has not been called.
NoDriver == [running |-> {}, calls |-> <<>>]

\* No Watch call has been made.
Unwatched == [wk \in WatchKeys |-> <<>>]

\* A Store as NewStore returns it, for the identities keys: nothing stored.
EmptyStore(keys) ==
    /\ backend \in Backends
    /\ heap = <<>>
    /\ resources = [k \in keys |-> Nil]
    /\ version = 0
    /\ table = <<>>
    /\ kv = [k \in keys |-> NoVal]
    /\ watchChan = <<>>
    /\ clock = 0
    /\ commits = 0

\* The goroutines procs, all idle, with ops calls to issue between them and
\* the channels chans still to be made.
AllIdle(procs, chans, ops) ==
    /\ chq = [c \in chans |-> <<>>]
    /\ got = [c \in chans |-> <<>>]
    /\ proc = [p \in procs |-> IdleProc]
    /\ opsLeft = ops

Init ==
    /\ EmptyStore(WideKeys)
    /\ watchers = Unwatched
    /\ AllIdle(Procs, AllChans, MaxOps)
    /\ driver = NoDriver
    /\ args = NoVal
    /\ result = <<>>
    /\ ctl = NoVal
    /\ gateway = NoVal

MemNext ==
    \/ \E p \in Procs, k \in Keys : MemCreate(p, k)
    \/ \E p \in Procs : MemUpdate(p)
    \/ \E p \in Procs, k \in Keys : MemDelete(p, k)
    \/ \E p \in Procs, k \in Keys : MemGet(p, k)

MyNext ==
    \/ \E p \in Procs, k \in Keys : MyCreateCheck(p, k)
    \/ \E p \in Procs : MyRecreateCheck(p)
    \/ \E p \in Procs : MySave(p)
    \/ \E p \in Procs : MyNotifyAdded(p)
    \/ \E p \in Procs : MyUpdateGet(p)
    \/ \E p \in Procs : MyUpdateDelete(p)
    \/ \E p \in Procs : MyNotifyModified(p)
    \/ \E p \in Procs, k \in Keys : MyDeleteGet(p, k)
    \/ \E p \in Procs : MyDeleteRow(p)
    \/ \E p \in Procs : MyNotifyDeleted(p)
    \/ \E p \in Procs, k \in Keys : MyGet(p, k)

EtNext ==
    \/ \E p \in Procs, k \in Keys : EtCreateCheck(p, k)
    \/ \E p \in Procs : EtUpdateGet(p)
    \/ \E p \in Procs : EtPut(p)
    \/ \E p \in Procs : EtNotify(p)
    \/ \E p \in Procs, k \in Keys : EtDeleteGet(p, k)
    \/ \E p \in Procs : EtDeleteKey(p)
    \/ \E p \in Procs, k \in Keys : EtGet(p, k)
    \/ startWatcher

Next ==
    \/ \E p \in Procs : ClientModify(p)
    \/ MemNext
    \/ MyNext
    \/ EtNext
    \/ \E c \in Chans, kind \in Kinds, ns \in WatchNamespaces : Watch(c, kind, ns)
    \/ \E c \in Chans : Recv(c)

Spec == Init /\ [][Next]_vars

(* ------------------------- single-caller runs ------------------------- *)
\* One goroutine issues the calls, one after the other, over the wider
\* universe: two namespaces, a Node, manifests with and without metadata of
\* the client's own, a watch on all namespaces or on one.

Caller == "p1"

WideMemNext ==
    \/ \E v \in WideManifests : MemCreateObj(Caller, v)
    \/ MemUpdate(Caller)
    \/ \E v \in UpdateBodies : MemUpdateBody(Caller, v)
    \/ \E k \in WideKeys : MemDelete(Caller, k)
    \/ \E k \in WideKeys : MemGet(Caller, k)

WideMyNext ==
    \/ \E v \in WideManifests : MyCreateCheckObj(Caller, v)
    \/ MyRecreateCheck(Caller)
    \/ MySave(Caller)
    \/ MyNotifyAdded(Caller)
    \/ MyUpdateGet(Caller)
    \/ \E v \in UpdateBodies : MyUpdateGetBody(Caller, v)
    \/ MyUpdateDelete(Caller)
    \/ MyNotifyModified(Caller)
    \/ \E k \in WideKeys : MyDeleteGet(Caller, k)
    \/ MyDeleteRow(Caller)
    \/ MyNotifyDeleted(Caller)
    \/ \E k \in WideKeys : MyGet(Caller, k)

WideEtNext ==
    \/ \E v \in WideManifests : EtCreateCheckObj(Caller, v)
    \/ EtUpdateGet(Caller)
    \/ \E v \in UpdateBodies : EtUpdateGetBody(Caller, v)
    \/ EtPut(Caller)
    \/ EtPutFail(Caller)
    \/ EtNotify(Caller)
    \/ \E k \in WideKeys : EtDeleteGet(Caller, k)
    \/ EtDeleteKey(Caller)
    \/ \E k \in WideKeys : EtGet(Caller, k)
    \/ startWatcher

WideNext ==
    \/ WideMemNext
    \/ WideMyNext
    \/ WideEtNext
    \/ \E c \in Chans, kind \in Kinds, ns \in WideWatchNamespaces : Watch(c, kind, ns)
    \/ \E c \in Chans : Recv(c)

SpecWide == Init /\ [][WideNext]_vars

(* ------------------------- gateway responses -------------------------- *)
\* HandleCreate and HandleUpdate pass the parsed body to the Store and turn
\* the call's result into the HTTP status of the response.

\* HandleCreate: any error of store.Create is answered StatusConflict, a
\* success StatusCreated.
HandleCreateStatus(res) == IF res # "ok" THEN 409 ELSE 201

\* HandleUpdate: any error of store.Update is answered StatusNotFound, a
\* success StatusOK.
HandleUpdateStatus(res) == IF res # "ok" THEN 404 ELSE 200

\* The status of the response to the request goroutine p has served.
ResponseStatus(p) ==
    IF proc[p].op = "Create" THEN HandleCreateStatus(proc[p].res)
    ELSE HandleUpdateStatus(proc[p].res)

(* --------------------------- gateway watch ---------------------------- *)
\* HandleWatch serves one watch request on a goroutine of its own: it calls
\* store.Watch, writes a Bookmark to the response stream, then copies the
\* channel's events to the stream until the request's context is done.
\* got[c] is the stream as the client reads it.

\* The channel store.Watch makes for the request goroutine p serves.
StreamChan(p) == IF p = "p1" THEN "w1" ELSE "w2"

\* What the goroutine keeps of its Watch call: the watchKey, the channel and
\* the subscriber slice as it read it.
WatchCall(wk, c, slice) == [wk |-> wk, ch |-> c, slice |-> slice]

\* The object of the initial Bookmark: an empty metav1.Status.
StatusVal == NewVal([kind |-> "Status", ns |-> "", name |-> ""], "")

\* HandleWatch up to store.Watch.  MemoryStore.Watch holds the mutex: the
\* channel is registered in the same step.  MySQLStore.Watch and
\* EtcdStore.Watch hold no lock: the slice is read here and written back,
\* with the channel appended, in a later step.
HandleWatch(p, kind, ns) ==
    /\ proc[p].pc = "idle"
    /\ proc[p].op = "none"
    /\ LET wk == [kind |-> kind, ns |-> ns]
           me == [IdleProc EXCEPT !.op = "Watch",
                                  !.data = WatchCall(wk, StreamChan(p), watchers[wk])]
       IN IF backend = "memory"
          THEN /\ watchers' = [watchers EXCEPT ![wk] = Append(@, StreamChan(p))]
               /\ proc' = [proc EXCEPT ![p] = [me EXCEPT !.pc = "bookmark"]]
          ELSE /\ proc' = [proc EXCEPT ![p] = [me EXCEPT !.pc = "register"]]
               /\ UNCHANGED watchers
    /\ UNCHANGED <<auxVars, backend, heap, storeVars, chq, got, opsLeft, commits>>

\* s.watchers[watchKey] = append(s.watchers[watchKey], ch), the write.
WatchRegister(p) ==
    /\ proc[p].pc = "register"
    /\ watchers' = [watchers EXCEPT ![proc[p].data.wk] =
                                      Append(proc[p].data.slice, proc[p].data.ch)]
    /\ proc' = [proc EXCEPT ![p].pc = "bookmark"]
    /\ UNCHANGED <<auxVars, backend, heap, storeVars, chq, got, opsLeft, commits>>

\* The initial event of the stream: Type Bookmark, Object &metav1.Status{}.
HandleWatchBookmark(p) ==
    /\ proc[p].pc = "bookmark"
    /\ got' = [got EXCEPT ![proc[p].data.ch] =
                   Append(@, [type |-> EventBookmark, mid |-> 0, op |-> "Watch",
                              pre |-> NoVal, obj |-> StatusVal, old |-> Deref(NilPtr)])]
    /\ proc' = [proc EXCEPT ![p].pc = "stream"]
    /\ UNCHANGED <<auxVars, backend, heap, storeVars, watchers, chq, opsLeft, commits>>

\* One turn of the loop, case event := <-eventCh.
HandleWatchEvent(p) ==
    /\ proc[p].pc = "stream"
    /\ Recv(proc[p].data.ch)

\* One turn of the loop, case <-reqCtx.Done(): the handler returns.  The
\* channel stays where Watch put it; nothing takes it out of s.watchers.
HandleWatchDone(p) ==
    /\ proc[p].pc = "stream"
    /\ proc' = [proc EXCEPT ![p].pc = "idle", ![p].res = "ok"]
    /\ UNCHANGED <<auxVars, backend, heap, storeVars, watchers, chq, got, opsLeft, commits>>

\* A goroutine that serves no watch request writes to the Store.
Writes(p) ==
    /\ proc[p].op # "Watch"
    /\ \/ \E k \in Keys : MemCreate(p, k)
       \/ \E k \in Keys : MemDelete(p, k)
       \/ \E k \in Keys : MyCreateCheck(p, k)
       \/ MySave(p)
       \/ MyNotifyAdded(p)
       \/ \E k \in Keys : MyDeleteGet(p, k)
       \/ MyDeleteRow(p)
       \/ MyNotifyDeleted(p)
       \/ \E k \in Keys : EtCreateCheck(p, k)
       \/ EtPut(p)
       \/ EtNotify(p)
       \/ \E k \in Keys : EtDeleteGet(p, k)
       \/ EtDeleteKey(p)

WatchNext ==
    \/ \E p \in Procs, kind \in Kinds, ns \in WatchNamespaces : HandleWatch(p, kind, ns)
    \/ \E p \in Procs : WatchRegister(p)
    \/ \E p \in Procs : HandleWatchBookmark(p)
    \/ \E p \in Procs : HandleWatchEvent(p)
    \/ \E p \in Procs : HandleWatchDone(p)
    \/ \E p \in Procs : Writes(p)
    \/ startWatcher

SpecWatch == Init /\ [][WatchNext]_vars

(* ------------------------------ mergePatch ---------------------------- *)
\* HandlePatch unmarshals the stored object and the request body into
\* map[string]interface{} and merges the second into the first.  A JSON
\* value is null, a string or an object (a map from keys to values).

JNull == [t |-> "null"]
JStr(x) == [t |-> "str", v |-> x]
JObj(m) == [t |-> "obj", m |-> m]

PatchKeys == {"a", "b"}
PatchStrings == {"1", "2"}

\* The maps from some of the keys K to values V.
MapsOver(K, V) == UNION {[D -> V] : D \in SUBSET K}

\* Stored documents, two levels deep; request bodies, which may carry null
\* at either level.
InnerDocs == {JObj(m) : m \in MapsOver(PatchKeys, {JStr(x) : x \in PatchStrings})}
Docs == MapsOver(PatchKeys, {JStr("1")} \cup InnerDocs)
InnerPatches == {JObj(m) : m \in MapsOver(PatchKeys, {JStr("2"), JNull})}
Patches == MapsOver(PatchKeys, {JStr("2"), JNull} \cup InnerPatches)

\* mergePatch(dst, src): for each key of src, null deletes the key, an
\* object is merged into dst's object of that key when dst has one and is
\* stored as it is otherwise, anything else replaces.
RECURSIVE mergePatch(_, _)
mergePatch(dst, src) ==
    LET deleted == {k \in DOMAIN src : src[k] = JNull}
    IN [k \in (DOMAIN dst \cup DOMAIN src) \ deleted |->
           IF k \notin DOMAIN src THEN dst[k]
           ELSE IF src[k].t = "obj" /\ k \in DOMAIN dst /\ dst[k].t = "obj"
                THEN JObj(mergePatch(dst[k].m, src[k].m))
                ELSE src[k]]

\* A stored document and a request body are chosen.
PatchInit ==
    /\ EmptyStore(WideKeys)
    /\ watchers = Unwatched
    /\ AllIdle(Procs, AllChans, MaxOps)
    /\ driver = NoDriver
    /\ args \in [doc : Docs, patch : Patches]
    /\ result = <<>>
    /\ ctl = NoVal
    /\ gateway = NoVal

\* The body is merged into the document as the request before left it.
HandlePatchMerge ==
    /\ Len(result) < MaxPatches
    /\ result' = Append(result, mergePatch(IF result = <<>> THEN args.doc
                                           ELSE result[Len(result)], args.patch))
    /\ UNCHANGED <<gateway, backend, heap, storeVars, watchers, chq, got, proc, opsLeft, commits,
                   driver, args, ctl>>

SpecPatch == PatchInit /\ [][HandlePatchMerge]_vars

(* ----------------------- Node writers of a host ----------------------- *)
\* Two components write the Node of their host, under the same name
\* (NODE_NAME, else the hostname): the network discovery service, which
\* marks the Nodes it writes with the label k3.network/managed, and the
\* controller manager's node report, which does not.

NetService == "p1"
NodeReporter == "p2"

\* buildNode and reportNode's literal: uid and creationTimestamp filled in,
\* no resourceVersion, and one condition, NodeReady with status True, whose
\* status is the field ready.
NodeVal(lbl) ==
    [kind |-> NodeKey.kind, ns |-> NodeKey.ns, name |-> NodeKey.name, rv |-> 0,
     uid |-> ClientStamp, ct |-> ClientStamp, label |-> lbl, ready |-> "True"]

\* store.Get, store.Create and store.Update of whichever backend was built.
StoreGet(p, k) == MemGet(p, k) \/ MyGet(p, k) \/ EtGet(p, k)
StoreCreate(p, v) == MemCreateObj(p, v) \/ MyCreateCheckObj(p, v) \/ EtCreateCheckObj(p, v)
StoreUpdate(p, v) == MemUpdateBody(p, v) \/ MyUpdateGetBody(p, v) \/ EtUpdateGetBody(p, v)

\* The remaining statements of a call that is under way.
StoreStep(p) ==
    \/ MyRecreateCheck(p) \/ MySave(p) \/ MyNotifyAdded(p)
    \/ MyUpdateDelete(p) \/ MyNotifyModified(p)
    \/ EtPut(p) \/ EtNotify(p)

\* The goroutine is between two Store calls, the last of which was op.
After(p, op) == proc[p].pc = "idle" /\ proc[p].op = op

\* upsertManagedNode and markManagedNodeReady begin with store.Get.
managedNodeGet ==
    /\ ~After(NetService, "Get")
    /\ StoreGet(NetService, NodeKey)

\* upsertManagedNode, no Node found: buildNode and store.Create.
upsertManagedNodeCreate ==
    /\ After(NetService, "Get")
    /\ proc[NetService].res = "NotFound"
    /\ StoreCreate(NetService, NodeVal("managed"))

\* Both functions, a managed Node found: a copy of it is changed and handed
\* to store.Update.  upsertManagedNode (a heartbeat of the peer) sets the
\* NodeReady condition to True, markManagedNodeReady to what its caller
\* says: False from reapLoop when the peer's TTL ran out.  A service writes
\* the Node of a peer only into a store that the hosts share.
managedNodeUpdate ==
    /\ After(NetService, "Get")
    /\ proc[NetService].res = "ok"
    /\ heap[proc[NetService].cur].label = "managed"
    /\ \E r \in IF backend = "memory" THEN {"True"} ELSE {"True", "False"} :
          StoreUpdate(NetService, [heap[proc[NetService].cur] EXCEPT !.label = "managed",
                                                                     !.ready = r])

\* Both functions return without a write: the Node found is not managed, or
\* markManagedNodeReady found none.
managedNodeReturn ==
    /\ After(NetService, "Get")
    /\ \/ proc[NetService].res = "NotFound"
       \/ /\ proc[NetService].res = "ok"
          /\ heap[proc[NetService].cur].label # "managed"
    /\ proc' = [proc EXCEPT ![NetService].op = "none"]
    /\ UNCHANGED <<auxVars, backend, heap, storeVars, watchers, chq, got, opsLeft, commits>>

\* reportNode: store.Get, then Create when it failed and Update otherwise,
\* of a Node built anew without the managed label.
reportNodeGet ==
    /\ ~After(NodeReporter, "Get")
    /\ StoreGet(NodeReporter, NodeKey)

reportNodeCreate ==
    /\ After(NodeReporter, "Get")
    /\ proc[NodeReporter].res = "NotFound"
    /\ StoreCreate(NodeReporter, NodeVal("hostname"))

\* The Node found: the new literal takes over the conditions of the Node
\* that Get returned, and only their heartbeat time is refreshed.
reportNodeUpdate ==
    /\ After(NodeReporter, "Get")
    /\ proc[NodeReporter].res = "ok"
    /\ StoreUpdate(NodeReporter, [NodeVal("hostname") EXCEPT
                                     !.ready = heap[proc[NodeReporter].cur].ready])

NodeInit ==
    /\ EmptyStore(WideKeys)
    /\ watchers = Unwatched
    /\ AllIdle(Procs, AllChans, MaxNodeOps)
    /\ driver = NoDriver
    /\ args = NoVal
    /\ result = <<>>
    /\ ctl = NoVal
    /\ gateway = NoVal

NodeNext ==
    \/ managedNodeGet
    \/ upsertManagedNodeCreate
    \/ managedNodeUpdate
    \/ managedNodeReturn
    \/ reportNodeGet
    \/ reportNodeCreate
    \/ reportNodeUpdate
    \/ \E p \in Procs : StoreStep(p)
    \/ startWatcher

SpecNode == NodeInit /\ [][NodeNext]_vars

(* ------------------- Pod and Runtime controllers ---------------------- *)
\* The controller manager starts the controllers on one Store.  Each
\* subscribes to all Pods and handles the events in a goroutine of its own;
\* the Runtime controller's Start also walks the stored Pods once.  The runs
\* begin when both subscriptions are made.  A Pod is
\* the object of the main runs with spec.nodeName (node), status.phase,
\* the status of the PodReady condition (ready) and the state of the
\* container status (cs); "" is a field not set.

NodeNames == {"n1", "n2"}

PodVal(k, node) ==
    [kind |-> k.kind, ns |-> k.ns, name |-> k.name, rv |-> 0, uid |-> 0, ct |-> 0,
     label |-> "x", node |-> node, phase |-> "", ready |-> "", cs |-> ""]

PodLoop == "podc"
RuntimeLoop == "rt"
RuntimeSync == "rtsync"
PodsProcs == {Caller, PodLoop, RuntimeLoop, RuntimeSync}

StoreUpdateOf(p, o, h) == MemUpdateOf(p, o, h) \/ MyUpdateGetOf(p, o, h) \/ EtUpdateGetOf(p, o, h)
StoreDelete(p, k) == MemDelete(p, k) \/ MyDeleteGet(p, k) \/ EtDeleteGet(p, k)

\* The remaining statements of a Delete that is under way.
StoreDeleteStep(p) == MyDeleteRow(p) \/ MyNotifyDeleted(p) \/ EtDeleteKey(p)

\* A goroutine at the top of its loop; own holds the commits of its Updates.
AtLoop(at) == [at |-> at, type |-> "none", obj |-> Nil, mid |-> 0, own |-> {}]

\* The goroutine is back at its select: it has not taken an event yet, or
\* its handler has returned.
AtSelect(p) ==
    \/ ctl[p].at = "loop"
    \/ ctl[p].at = "update" /\ proc[p].pc = "idle" /\ proc[p].op = "Update"

\* The test both syncPendingPods and processPods make before handlePod, and
\* handlePod's GetContainerStatus: a Pod with a node name that is not
\* Running has its container started unless the driver reports it running.
RuntimeFilter(pod) ==
    /\ pod.node # ""
    /\ pod.phase # "Running"
    /\ KeyOf(pod) \notin driver.running

\* case event := <-watchCh: the goroutine takes the next event, holds the
\* object the event points to and goes to the event's handler.
CtlRecv(p, c) ==
    /\ AtSelect(p)
    /\ chq[c] # <<>>
    /\ LET ev == Head(chq[c])
           fresh == "val" \in DOMAIN ev.obj
           pod == Deref(ev.obj)
           to == IF p = PodLoop
                 THEN (IF ev.type = EventDeleted THEN "loop" ELSE "update")
                 ELSE IF ev.type = EventDeleted THEN "stop"
                 ELSE IF RuntimeFilter(pod) THEN "start" ELSE "loop"
       IN /\ heap' = IF fresh THEN Append(heap, ev.obj.val) ELSE heap
          /\ ctl' = [ctl EXCEPT ![p].at = to, ![p].type = ev.type,
                                ![p].obj = IF fresh THEN Len(heap) + 1 ELSE ev.obj.ref,
                                ![p].mid = ev.mid,
                                ![p].own = IF ctl[p].at = "update" /\ proc[p].res = "ok"
                                           THEN @ \cup {proc[p].mid} ELSE @]
    /\ chq' = [chq EXCEPT ![c] = Tail(@)]
    /\ proc' = [proc EXCEPT ![p].op = "none"]
    /\ UNCHANGED <<gateway, driver, args, result, backend, storeVars, watchers, got, opsLeft, commits>>

\* handlePodCreated fills in what the Pod does not have yet.
handlePodCreatedStatus(v) ==
    [v EXCEPT !.phase = IF @ = "" THEN "Pending" ELSE @,
              !.uid = IF @ = 0 THEN ClientStamp ELSE @,
              !.ct = IF @ = 0 THEN ClientStamp ELSE @,
              !.ready = IF @ = "" THEN "False" ELSE @,
              !.cs = IF @ = "" THEN "Waiting" ELSE @]

\* updatePodConditions: a PodReady condition that is not True is set from
\* the container statuses and the phase; one that is missing is appended
\* before its status is assigned, and the assignment goes to the local copy.
updatePodConditions(v) ==
    [v EXCEPT !.ready = IF @ = "True" THEN "True"
                        ELSE IF @ = "" THEN "Empty"
                        ELSE IF v.cs # "Waiting" /\ v.phase = "Running" THEN "True"
                        ELSE "False"]

\* updatePodPhase, for a Pod that is not being deleted.
updatePodPhase(v) ==
    [v EXCEPT !.phase = IF v.cs = "Running" THEN "Running" ELSE "Pending"]

\* PodController.processPods, case EventAdded: handlePodCreated changes the
\* object of the event and hands it to store.Update.
handlePodCreated ==
    /\ ctl[PodLoop].at = "update"
    /\ ctl[PodLoop].type = EventAdded
    /\ proc[PodLoop].op # "Update"
    /\ StoreUpdateOf(PodLoop, ctl[PodLoop].obj,
                     [heap EXCEPT ![ctl[PodLoop].obj] = handlePodCreatedStatus(@)])

\* case EventModified: syncPod, whose store.Update is unconditional.
syncPod ==
    /\ ctl[PodLoop].at = "update"
    /\ ctl[PodLoop].type = EventModified
    /\ proc[PodLoop].op # "Update"
    /\ StoreUpdateOf(PodLoop, ctl[PodLoop].obj,
                     [heap EXCEPT ![ctl[PodLoop].obj] = updatePodPhase(updatePodConditions(@))])

\* syncPendingPods: store.List, then the test of each Pod found.
syncPendingPods(k) ==
    /\ ctl[RuntimeSync].at = "init"
    /\ IF ~Exists(k) \/ ~RuntimeFilter(StoredVal(k))
       THEN /\ ctl' = [ctl EXCEPT ![RuntimeSync].at = "done"]
            /\ UNCHANGED heap
       ELSE /\ heap' = IF backend = "memory" THEN heap ELSE Append(heap, StoredVal(k))
            /\ ctl' = [ctl EXCEPT ![RuntimeSync].at = "start",
                                  ![RuntimeSync].obj = IF backend = "memory" THEN resources[k]
                                                       ELSE Len(heap) + 1]
    /\ UNCHANGED <<gateway, driver, args, result, backend, storeVars, watchers, chq, got, proc, opsLeft,
                   commits>>

\* handlePod: runtime.StartContainer.
StartContainer(g) ==
    /\ ctl[g].at = "start"
    /\ LET pod == heap[ctl[g].obj]
       IN driver' = [running |-> driver.running \cup {KeyOf(pod)},
                     calls |-> Append(driver.calls,
                                  [fn |-> "StartContainer", key |-> KeyOf(pod),
                                   node |-> pod.node])]
    /\ ctl' = [ctl EXCEPT ![g].at = "update"]
    /\ UNCHANGED <<gateway, args, result, backend, heap, storeVars, watchers, chq, got, proc, opsLeft,
                   commits>>

\* handlePod after the start: the status is written into the Pod.
handlePodStatus(v) == [v EXCEPT !.phase = "Running", !.cs = "Running", !.ready = "True"]

\* handlePod: store.Update of the Pod it was handed.
handlePodUpdate(g) ==
    /\ ctl[g].at = "update"
    /\ proc[g].op # "Update"
    /\ StoreUpdateOf(g, ctl[g].obj, [heap EXCEPT ![ctl[g].obj] = handlePodStatus(@)])

\* RuntimeController.processPods, case EventDeleted: runtime.StopContainer.
StopContainer ==
    /\ ctl[RuntimeLoop].at = "stop"
    /\ LET pod == heap[ctl[RuntimeLoop].obj]
       IN driver' = [running |-> driver.running \ {KeyOf(pod)},
                     calls |-> Append(driver.calls,
                                  [fn |-> "StopContainer", key |-> KeyOf(pod),
                                   node |-> pod.node])]
    /\ ctl' = [ctl EXCEPT ![RuntimeLoop].at = "loop"]
    /\ UNCHANGED <<gateway, args, result, backend, heap, storeVars, watchers, chq, got, proc, opsLeft,
                   commits>>

\* A client creates the Pod, on some node or on none, and may delete it.
ClientCreatePod ==
    /\ proc[Caller].op = "none"
    /\ \E k \in Keys, n \in NodeNames : StoreCreate(Caller, PodVal(k, n))

ClientDeletePod ==
    /\ After(Caller, "Create")
    /\ \E k \in Keys : StoreDelete(Caller, k)

PodsInit ==
    /\ EmptyStore(WideKeys)
    /\ watchers = [Unwatched EXCEPT ![[kind |-> "Pod", ns |-> ""]] = <<"w1", "w2">>]
    /\ AllIdle(PodsProcs, AllChans, MaxCtlOps)
    /\ driver = NoDriver
    /\ args = NoVal
    /\ result = <<>>
    /\ ctl = [g \in {PodLoop, RuntimeLoop, RuntimeSync} |->
                 AtLoop(IF g = RuntimeSync THEN "init" ELSE "loop")]
    /\ gateway = NoVal

PodsNext ==
    \/ CtlRecv(PodLoop, "w1")
    \/ handlePodCreated
    \/ syncPod
    \/ \E k \in Keys : syncPendingPods(k)
    \/ CtlRecv(RuntimeLoop, "w2")
    \/ \E g \in {RuntimeLoop, RuntimeSync} : StartContainer(g)
    \/ \E g \in {RuntimeLoop, RuntimeSync} : handlePodUpdate(g)
    \/ StopContainer
    \/ ClientCreatePod
    \/ ClientDeletePod
    \/ \E p \in PodsProcs : StoreStep(p)
    \/ StoreDeleteStep(Caller)
    \/ startWatcher

SpecPods == PodsInit /\ [][PodsNext]_vars

(* ---------------- API gateway and Deployment controller ---------------- *)
\* The process builds two Stores from one configuration: the one the
\* controllers are given, and one more inside the gateway's module.  The
\* Store of the main runs is the controllers'.  Of the gateway's Store the
\* runs keep what is its own: the map and the version of a MemoryStore.
\* The rows of a MySQLStore and the keys of an EtcdStore are the database's
\* and are common to both Stores; the subscribers are each Store's own, and
\* the database tells the native watch of every EtcdStore of every Put.

MaxDeployOps == 4
MaxReplicas == 2

Gateway == "gw"
DeployLoop == "dc"
DeployStart == "dcstart"
DeployProcs == {Gateway, DeployLoop, DeployStart}

\* The Deployment of the runs, and the Pods made for it: a Pod's name is
\* the Deployment's followed by the clock reading it was built at.
DeployName == <<"d", 0>>
DeployKey == [kind |-> "Deployment", ns |-> "default", name |-> DeployName]
PodStamps == 1..(3 * MaxDeployOps)
DeployPodKey(t) == [kind |-> "Pod", ns |-> "default", name |-> <<"d", t>>]
ClientPodKey(i) == [kind |-> "Pod", ns |-> "default", name |-> <<"c", i>>]
ClientPods == 1..2
DeployKeys ==
    {DeployKey} \cup {DeployPodKey(t) : t \in PodStamps} \cup {ClientPodKey(i) : i \in ClientPods}
DeployWatchKeys == [kind : {"Deployment", "Pod"}, ns : {"default", ""}]

\* The manifest of the Deployment with spec.replicas = n; label stands for
\* spec.selector.matchLabels and for the labels of the template, which agree.
DeployVal(n) ==
    [kind |-> "Deployment", ns |-> "default", name |-> DeployName, rv |-> 0, uid |-> 0,
     ct |-> 0, label |-> "x", replicas |-> n]

\* Another Deployment, whose template carries the same labels.
OtherDeployName == <<"e", 0>>

\* The manifest of a Pod that is posted with the labels of the selector: the
\* first is a Pod of the other Deployment, with its controller
\* ownerReference; the second has no owner.
ClientPodVal(i) ==
    [kind |-> "Pod", ns |-> "default", name |-> <<"c", i>>, rv |-> 0, uid |-> 0, ct |-> 0,
     label |-> "x", owner |-> IF i = 1 THEN OtherDeployName ELSE <<>>]

\* The gateway's Store as NewStore returns it.
GatewayStore == [resources |-> [k \in DeployKeys |-> NoVal], version |-> 0]

\* What a Get of each Store would load.
ControllerView == [k \in DeployKeys |-> StoredVal(k)]
GatewayView ==
    [k \in DeployKeys |-> IF backend = "memory" THEN gateway.resources[k] ELSE StoredVal(k)]

\* labelsMatchAll(pod.Labels, selector) || hasDeploymentOwnerRef(pod, name),
\* over the Pods of the Deployment's namespace that View holds.
deploymentPods(View, d) ==
    {k \in DeployKeys : /\ k.kind = "Pod"
                        /\ k.ns = d.ns
                        /\ View[k] # NoVal
                        /\ (View[k].label = d.label \/ View[k].owner = d.name)}

(* The gateway's MemoryStore: its subscribers are the gateway's own watch
   requests, of which these runs make none. *)
GatewayMemCreate(v) ==
    /\ backend = "memory"
    /\ CanCall(Gateway)
    /\ opsLeft' = opsLeft - 1
    /\ LET k == KeyOf(v)
           me == Enter(Gateway, "Create", Nil, k)
       IN IF gateway.resources[k] # NoVal
          THEN /\ proc' = [proc EXCEPT ![Gateway] = [me EXCEPT !.res = "AlreadyExists"]]
               /\ UNCHANGED <<gateway, clock>>
          ELSE /\ clock' = Now
               /\ gateway' = [gateway EXCEPT
                      !.version = @ + 1,
                      !.resources[k] =
                          [v EXCEPT !.rv = IF @ = 0 THEN gateway.version + 1 ELSE @,
                                    !.ct = IF @ = 0 THEN Now ELSE @,
                                    !.uid = IF @ = 0 THEN gateway.version + 1 ELSE @]]
               /\ proc' = [proc EXCEPT ![Gateway] = [me EXCEPT !.res = "ok"]]
    /\ UNCHANGED <<driver, args, result, ctl, backend, heap, resources, version, table, kv,
                   watchChan, watchers, chq, got, commits>>

GatewayMemUpdate(v) ==
    /\ backend = "memory"
    /\ CanCall(Gateway)
    /\ opsLeft' = opsLeft - 1
    /\ LET k == KeyOf(v)
           me == Enter(Gateway, "Update", Nil, k)
       IN IF gateway.resources[k] = NoVal
          THEN /\ proc' = [proc EXCEPT ![Gateway] = [me EXCEPT !.res = "NotFound"]]
               /\ UNCHANGED gateway
          ELSE /\ gateway' = [gateway EXCEPT
                      !.version = @ + 1,
                      !.resources[k] = [v EXCEPT !.rv = gateway.version + 1]]
               /\ proc' = [proc EXCEPT ![Gateway] = [me EXCEPT !.res = "ok"]]
    /\ UNCHANGED <<driver, args, result, ctl, backend, heap, storeVars, watchers, chq, got,
                   commits>>

GatewayMemDelete(k) ==
    /\ backend = "memory"
    /\ CanCall(Gateway)
    /\ opsLeft' = opsLeft - 1
    /\ LET me == Enter(Gateway, "Delete", Nil, k)
       IN IF gateway.resources[k] = NoVal
          THEN /\ proc' = [proc EXCEPT ![Gateway] = [me EXCEPT !.res = "NotFound"]]
               /\ UNCHANGED gateway
          ELSE /\ gateway' = [gateway EXCEPT !.resources[k] = NoVal]
               /\ proc' = [proc EXCEPT ![Gateway] = [me EXCEPT !.res = "ok"]]
    /\ UNCHANGED <<driver, args, result, ctl, backend, heap, storeVars, watchers, chq, got,
                   commits>>

\* The manifests a client posts: the Deployment first, then Pods, each under
\* the first name that is free.
PostBodies ==
    IF GatewayView[DeployKey] = NoVal
    THEN {DeployVal(n) : n \in 1..MaxReplicas}
    ELSE {ClientPodVal(i) : i \in {j \in ClientPods :
                                     /\ GatewayView[ClientPodKey(j)] = NoVal
                                     /\ \A h \in 1..(j - 1) : GatewayView[ClientPodKey(h)] # NoVal}}

\* HandleCreate: s.store.Create(gvk, obj), on the gateway's Store.
HandleCreate ==
    \E v \in PostBodies :
       \/ GatewayMemCreate(v)
       \/ MyCreateCheckObj(Gateway, v)
       \/ EtCreateCheckObj(Gateway, v)

\* HandleUpdate: s.store.Update(gvk, obj), for a PUT of the Deployment.
HandleUpdate ==
    /\ GatewayView[DeployKey] # NoVal
    /\ \E n \in 1..MaxReplicas :
          \/ GatewayMemUpdate(DeployVal(n))
          \/ MyUpdateGetBody(Gateway, DeployVal(n))
          \/ EtUpdateGetBody(Gateway, DeployVal(n))

\* HandleDelete: s.store.Get has found the Pod, and
\* s.store.Delete(gvk, namespace, name) follows.
HandleDelete ==
    \E k \in {j \in DeployKeys : j.kind = "Pod" /\ GatewayView[j] # NoVal} :
       \/ GatewayMemDelete(k)
       \/ MyDeleteGet(Gateway, k)
       \/ EtDeleteGet(Gateway, k)

\* The statements of the gateway's call up to its notifyWatchers: they work
\* on the database.
GatewayStoreStep ==
    \/ MySave(Gateway) \/ MyUpdateDelete(Gateway) \/ MyRecreateCheck(Gateway)
    \/ MyDeleteRow(Gateway)
    \/ EtPut(Gateway) \/ EtDeleteKey(Gateway)

\* notifyWatchers of the gateway's Store offers the event to the gateway's
\* subscribers; the channels of the controllers' Store are not among them.
GatewayNotify ==
    /\ proc[Gateway].pc \in {"added", "modified", "deleted", "notify"}
    /\ proc' = Return(Gateway, "ok")
    /\ UNCHANGED <<auxVars, backend, heap, storeVars, watchers, chq, got, opsLeft, commits>>

(* The Deployment controller: the goroutine on the channel of its Watch,
   and the caller of Start, which synchronises the Deployments it finds. *)

\* createPodForDeployment: the name, the uid and the creationTimestamp come
\* from the clock, the labels from the template.
createPodForDeployment(d, t) ==
    [kind |-> "Pod", ns |-> d.ns, name |-> <<d.name[1], t>>, rv |-> 0, uid |-> t, ct |-> t,
     label |-> d.label, owner |-> d.name]

\* The goroutine before its first event: d is the Deployment it was handed
\* last, need the Pods still to create, del the Pods still to delete.
DeployIdle == [at |-> "loop", d |-> NoVal, need |-> 0, del |-> <<>>, pod |-> NoVal]

\* Between two Store calls of syncDeployment's loops.
Scaling(g) ==
    \/ ctl[g].at = "scale"
    \/ /\ ctl[g].at \in {"create", "delete"}
       /\ proc[g].pc = "idle"
       /\ proc[g].op # "none"

\* syncDeployment has returned.
Synced(g) == Scaling(g) /\ ctl[g].need = 0 /\ ctl[g].del = <<>>

\* processDeployments is at its select: no event taken yet, or
\* syncDeployment has returned.
AtDeploySelect == ctl[DeployLoop].at = "loop" \/ Synced(DeployLoop)

\* syncExistingDeployments: store.List of the Deployments, and
\* syncDeployment of the one found.
syncExistingDeployments ==
    /\ ctl[DeployStart].at = "init"
    /\ ctl' = [ctl EXCEPT ![DeployStart].at = IF Exists(DeployKey) THEN "sync" ELSE "done",
                          ![DeployStart].d = StoredVal(DeployKey)]
    /\ UNCHANGED <<gateway, driver, args, result, backend, heap, storeVars, watchers, chq, got,
                   proc, opsLeft, commits>>

\* case event := <-watchCh: Added and Modified go to syncDeployment, Deleted
\* is logged.
processDeployments ==
    /\ AtDeploySelect
    /\ chq["w1"] # <<>>
    /\ LET ev == Head(chq["w1"])
       IN ctl' = [ctl EXCEPT ![DeployLoop] =
                     IF ev.type = EventDeleted THEN [DeployIdle EXCEPT !.d = ctl[DeployLoop].d]
                     ELSE [DeployIdle EXCEPT !.at = "sync", !.d = Deref(ev.obj)]]
    /\ chq' = [chq EXCEPT !["w1"] = Tail(@)]
    /\ proc' = [proc EXCEPT ![DeployLoop].op = "none"]
    /\ UNCHANGED <<gateway, driver, args, result, backend, heap, storeVars, watchers, got,
                   opsLeft, commits>>

\* The place of a stored key in what List returns: the rows in the order
\* of the table on MySQL, the keys in their own order on etcd, where a
\* client's Pod (c-...) comes before a Pod of the Deployment (d-...).
ListRank(k) ==
    IF backend = "mysql"
    THEN CHOOSE i \in 1..Len(table) : KeyOf(table[i]) = k
    ELSE IF k.name[1] = "c" THEN k.name[2] ELSE Cardinality(ClientPods) + k.name[2]

\* The first n of the keys S in that order.
RECURSIVE FirstOf(_, _)
FirstOf(S, n) ==
    IF n = 0 \/ S = {} THEN <<>>
    ELSE LET k == CHOOSE j \in S : \A i \in S : ListRank(j) <= ListRank(i)
         IN <<k>> \o FirstOf(S \ {k}, n - 1)

\* syncDeployment, up to the comparison: store.List of the namespace's Pods
\* and the count of those the Deployment claims.
syncDeployment(g) ==
    /\ ctl[g].at = "sync"
    /\ LET d == ctl[g].d
           pods == deploymentPods(ControllerView, d)
           currentReplicas == Cardinality(pods)
       IN ctl' = [ctl EXCEPT ![g].at = "scale",
                             ![g].need = IF currentReplicas < d.replicas
                                                  THEN d.replicas - currentReplicas ELSE 0,
                             ![g].del = IF currentReplicas > d.replicas
                                                 THEN FirstOf(pods, currentReplicas - d.replicas)
                                                 ELSE <<>>]
    /\ UNCHANGED <<gateway, driver, args, result, backend, heap, storeVars, watchers, chq, got,
                   proc, opsLeft, commits>>

\* One turn of the loop that creates: the Pod is built.
syncDeploymentBuild(g) ==
    /\ Scaling(g)
    /\ ctl[g].need > 0
    /\ clock' = Now
    /\ ctl' = [ctl EXCEPT ![g].at = "create",
                          ![g].need = @ - 1,
                          ![g].pod = createPodForDeployment(ctl[g].d, Now)]
    /\ proc' = [proc EXCEPT ![g].op = "none"]
    /\ UNCHANGED <<gateway, driver, args, result, backend, heap, resources, version, table, kv,
                   watchChan, watchers, chq, got, opsLeft, commits>>

\* dc.store.Create(podGVK, pod); an error is logged and the loop goes on.
syncDeploymentCreate(g) ==
    /\ ctl[g].at = "create"
    /\ proc[g].op = "none"
    /\ StoreCreate(g, ctl[g].pod)

\* One turn of the loop that deletes: the next of the Pods in excess.
syncDeploymentNext(g) ==
    /\ Scaling(g)
    /\ ctl[g].need = 0
    /\ ctl[g].del # <<>>
    /\ ctl' = [ctl EXCEPT ![g].at = "delete",
                          ![g].del = Tail(@),
                          ![g].pod = Head(ctl[g].del)]
    /\ proc' = [proc EXCEPT ![g].op = "none"]
    /\ UNCHANGED <<gateway, driver, args, result, backend, heap, storeVars, watchers, chq, got,
                   opsLeft, commits>>

\* dc.store.Delete(podGVK, pod.Namespace, pod.Name).
syncDeploymentDelete(g) ==
    /\ ctl[g].at = "delete"
    /\ proc[g].op = "none"
    /\ StoreDelete(g, ctl[g].pod)

\* The statements of a Create or a Delete of the controller that is under
\* way.
DeployStoreStep(g) ==
    \/ MySave(g) \/ MyNotifyAdded(g) \/ MyDeleteRow(g) \/ MyNotifyDeleted(g)
    \/ EtPut(g) \/ EtNotify(g) \/ EtDeleteKey(g)

\* The controllers' Store and the gateway's are made, and
\* DeploymentController.Start has made its Watch and started
\* processDeployments.
DeployInit ==
    /\ EmptyStore(DeployKeys)
    /\ watchers = [wk \in DeployWatchKeys |->
                      IF wk = [kind |-> "Deployment", ns |-> ""] THEN <<"w1">> ELSE <<>>]
    /\ AllIdle(DeployProcs, Chans, MaxDeployOps)
    /\ driver = NoDriver
    /\ args = NoVal
    /\ result = <<>>
    /\ ctl = [g \in {DeployLoop, DeployStart} |->
                 [DeployIdle EXCEPT !.at = IF g = DeployStart THEN "init" ELSE "loop"]]
    /\ gateway = GatewayStore

DeployNext ==
    \/ HandleCreate
    \/ HandleUpdate
    \/ HandleDelete
    \/ GatewayStoreStep
    \/ GatewayNotify
    \/ startWatcher
    \/ processDeployments
    \/ syncExistingDeployments
    \/ \E g \in {DeployLoop, DeployStart} :
          \/ syncDeployment(g)
          \/ syncDeploymentBuild(g)
          \/ syncDeploymentCreate(g)
          \/ syncDeploymentNext(g)
          \/ syncDeploymentDelete(g)
          \/ DeployStoreStep(g)

SpecDeploy == DeployInit /\ [][DeployNext]_vars

(* ------------------------- URL build and parse ------------------------- *)
\* The command-line client builds the URL it posts a manifest to from the
\* manifest's GroupVersionKind and namespace; the gateway finds the handler
\* by its route table and the handler reads the GroupVersionKind back from
\* the path.  A path is the sequence of its segments.

URLGroups == {"", "apps"}
URLVersions == {"v1", "v1beta1"}
URLKinds == {"Pod", "Service", "ConfigMap", "Secret", "Node", "Deployment",
             "StatefulSet", "DaemonSet", "Job"}
URLNamespaces == {"", " ", "default", "other"}

\* strings.TrimSpace, on the namespaces above.
TrimSpace(s) == IF s = " " THEN "" ELSE s

Unsupported == [err |-> "unsupported"]

kindToPlural(kind) ==
    CASE kind = "Pod" -> "pods"
      [] kind = "Service" -> "services"
      [] kind = "ConfigMap" -> "configmaps"
      [] kind = "Secret" -> "secrets"
      [] kind = "Node" -> "nodes"
      [] kind = "Deployment" -> "deployments"
      [] kind = "StatefulSet" -> "statefulsets"
      [] kind = "DaemonSet" -> "daemonsets"
      [] OTHER -> ""

kindFromResource(resource) ==
    CASE resource = "pods" -> "Pod"
      [] resource = "services" -> "Service"
      [] resource = "configmaps" -> "ConfigMap"
      [] resource = "secrets" -> "Secret"
      [] resource = "nodes" -> "Node"
      [] resource = "deployments" -> "Deployment"
      [] resource = "statefulsets" -> "StatefulSet"
      [] resource = "daemonsets" -> "DaemonSet"
      [] OTHER -> ""

apiPathFor(gvk, namespace) ==
    LET plural == kindToPlural(gvk.kind)
        ns == IF TrimSpace(namespace) = "" THEN "default" ELSE TrimSpace(namespace)
    IN IF plural = "" THEN Unsupported
       ELSE IF gvk.kind = "Node" /\ gvk.group = "" /\ gvk.version = "v1"
       THEN [path |-> <<"api", gvk.version, plural>>]
       ELSE IF gvk.group = ""
       THEN [path |-> <<"api", gvk.version, "namespaces", ns, plural>>]
       ELSE [path |-> <<"apis", gvk.group, gvk.version, "namespaces", ns, plural>>]

\* The resources RegisterRoutes registers handlers for, by route group.
RouteResources(prefix) ==
    IF prefix = <<"api", "v1">> THEN {"pods", "services", "configmaps", "secrets"}
    ELSE IF prefix = <<"apis", "apps", "v1">>
    THEN {"deployments", "statefulsets", "daemonsets"}
    ELSE {}

NoRoute == [status |-> 404]

\* The route of the POST of a collection path: the parameters the router
\* hands to the handler, or no route at all.
RouteParams(parts) ==
    LET n == IF Len(parts) > 0 /\ parts[1] = "apis" THEN 3 ELSE 2
        prefix == SubSeq(parts, 1, n)
        rest == SubSeq(parts, n + 1, Len(parts))
    IN IF Len(rest) = 1 /\ rest[1] \in RouteResources(prefix)
       THEN [namespace |-> ""]
       ELSE IF /\ Len(rest) = 3
               /\ rest[1] = "namespaces"
               /\ rest[2] # ""
               /\ rest[3] \in RouteResources(prefix)
       THEN [namespace |-> rest[2]]
       ELSE NoRoute

parseGVKFromContext(parts) ==
    IF Len(parts) < 3 THEN Unsupported
    ELSE IF parts[1] \notin {"api", "apis"} THEN Unsupported
    ELSE IF parts[1] = "apis" /\ Len(parts) < 4 THEN Unsupported
    ELSE LET grp == IF parts[1] = "api" THEN "" ELSE parts[2]
             ver == IF parts[1] = "api" THEN parts[2] ELSE parts[3]
             rest == SubSeq(parts, IF parts[1] = "api" THEN 3 ELSE 4, Len(parts))
             unwatched == IF Len(rest) > 0 /\ rest[1] = "watch" THEN Tail(rest) ELSE rest
             resourceAt == IF Len(unwatched) >= 2 /\ unwatched[1] = "namespaces"
                           THEN SubSeq(unwatched, 3, Len(unwatched))
                           ELSE unwatched
         IN IF Len(resourceAt) < 1 THEN Unsupported
            ELSE IF kindFromResource(resourceAt[1]) = "" THEN Unsupported
            ELSE [group |-> grp, version |-> ver,
                  kind |-> kindFromResource(resourceAt[1])]

\* A manifest's GroupVersionKind and namespace are chosen.
URLInit ==
    /\ EmptyStore(WideKeys)
    /\ watchers = Unwatched
    /\ AllIdle(Procs, AllChans, MaxOps)
    /\ driver = NoDriver
    /\ args \in [gvk : [group : URLGroups, version : URLVersions, kind : URLKinds],
                 ns : URLNamespaces]
    /\ result = <<>>
    /\ ctl = NoVal
    /\ gateway = NoVal

\* cmdApply builds the path of the request.
ApplyBuild ==
    /\ result = <<>>
    /\ result' = <<apiPathFor(args.gvk, args.ns)>>
    /\ UNCHANGED <<gateway, backend, heap, storeVars, watchers, chq, got, proc, opsLeft, commits,
                   driver, args, ctl>>

\* The gateway routes the request; HandleCreate reads the GroupVersionKind
\* from the path and the namespace from the route.
GatewayParse ==
    /\ Len(result) = 1
    /\ "path" \in DOMAIN result[1]
    /\ LET params == RouteParams(result[1].path)
       IN result' = Append(result,
              IF params = NoRoute THEN NoRoute
              ELSE [gvk |-> parseGVKFromContext(result[1].path), ns |-> params.namespace])
    /\ UNCHANGED <<gateway, backend, heap, storeVars, watchers, chq, got, proc, opsLeft, commits,
                   driver, args, ctl>>

URLNext == ApplyBuild \/ GatewayParse

SpecURL == URLInit /\ [][URLNext]_vars

(* ============================ properties ============================== *)

\* The channels an event of (kind, ns) is offered to.
Subscribers(kind, ns) == {Targets(kind, ns)[i] : i \in 1..Len(Targets(kind, ns))}

WriteOps == {"Create", "Update", "Delete"}

\* Goroutine p is back from a call that succeeded.
Succeeded(p, op) == proc[p].pc = "idle" /\ proc[p].op = op /\ proc[p].res = "ok"

(* ------------------------------- C1 ----------------------------------- *)

\* C1: of the Create calls that carry the same (GVK, namespace, name), Kind
\* other than Node, and that are issued while no object with that identity
\* exists, exactly one succeeds.  Stated on the commit history: two Creates
\* of one identity never both succeed with nothing committed between them
\* (a Delete between them would be a commit).
C1_OneCreateWins ==
    \A p, q \in Procs :
        (/\ p # q
         /\ Succeeded(p, "Create") /\ Succeeded(q, "Create")
         /\ proc[p].key = proc[q].key
         /\ ~IsNode(proc[p].key.kind))
        => proc[q].mid # proc[p].mid + 1

(* ------------------------------- C2 ----------------------------------- *)

\* C2: a subscriber receives the events of a Kind in the order in which the
\* mutations they report were committed: the commit numbers of the events
\* it has read never go down.
C2_CommitOrder ==
    \A c \in Chans : \A i, j \in 1..Len(got[c]) :
        (i < j /\ got[c][i].obj.kind = got[c][j].obj.kind)
        => got[c][i].mid <= got[c][j].mid

(* ------------------------------- C3 ----------------------------------- *)

\* C3: in the sequence of events one subscriber receives, the
\* resourceVersion of each event's object is strictly greater than that of
\* every earlier event.
C3_VersionsIncrease ==
    \A c \in Chans : \A i, j \in 1..Len(got[c]) :
        i < j => got[c][i].obj.rv < got[c][j].obj.rv

(* ------------------------------- C4 ----------------------------------- *)

\* C4: what a subscriber receives for one Update is a single event, and it
\* is a Modified: no event emitted by an Update has another type, and no
\* two events received report the same Update.
C4_UpdateOneModified ==
    \A c \in Chans : \A i \in 1..Len(got[c]) :
        got[c][i].op = "Update"
        => /\ got[c][i].type = EventModified
           /\ \A j \in 1..Len(got[c]) : j # i => got[c][j].mid # got[c][i].mid

(* ------------------------------- C5 ----------------------------------- *)

\* The Added/Modified events of the same key that subscriber c read before
\* its i-th event.
PriorWrites(c, i) ==
    {j \in 1..(i - 1) : /\ got[c][j].type \in {EventAdded, EventModified}
                        /\ KeyOf(got[c][j].obj) = KeyOf(got[c][i].obj)}

\* C5: the old object of a Modified event equals the object of the most
\* recent Added or Modified event the same subscriber received for that key.
C5_OldIsLastSeen ==
    \A c \in Chans : \A i \in 1..Len(got[c]) :
        (got[c][i].type = EventModified /\ PriorWrites(c, i) # {})
        => LET j == CHOOSE m \in PriorWrites(c, i) : \A n \in PriorWrites(c, i) : n <= m
           IN got[c][i].old = got[c][j].obj

(* ------------------------------- C6 ----------------------------------- *)

\* C6: once a Delete has succeeded, and until something else is committed,
\* nothing is stored under the key (a Get finds nothing); a subscriber
\* receives at most one Deleted event for it, and the object of that event
\* is the stored state the delete removed.
C6_DeleteObserved ==
    /\ \A p \in Procs :
           (Succeeded(p, "Delete") /\ proc[p].mid = commits) => ~Exists(proc[p].key)
    /\ \A c \in Chans : \A i \in 1..Len(got[c]) :
           got[c][i].type = EventDeleted
           => /\ got[c][i].obj = got[c][i].pre
              /\ \A j \in 1..Len(got[c]) :
                     (j # i /\ got[c][j].type = EventDeleted)
                     => got[c][j].mid # got[c][i].mid

(* ------------------------------- C7 ----------------------------------- *)

NotifyPcs == {"added", "modified", "deleted", "notify"}

\* The events a step hands to notifyWatchers, as (commit number, key): the
\* whole call of the memory backend, a notify step of the other two, a turn
\* of startWatcher that parsed its event.
Published ==
    (IF backend = "memory" /\ commits' # commits
     THEN {[mid |-> commits', key |-> proc'[p].key] :
               p \in {r \in Procs : proc'[r] # proc[r]}}
     ELSE {})
    \cup {[mid |-> proc[p].mid, key |-> proc[p].key] :
              p \in {r \in Procs : proc[r].pc \in NotifyPcs /\ proc'[r].pc # proc[r].pc}}
    \cup (IF /\ watchChan # <<>>
             /\ watchChan' = Tail(watchChan)
             /\ Head(watchChan).value # NoVal
          THEN {[mid |-> Head(watchChan).mid, key |-> Head(watchChan).key]}
          ELSE {})

\* C7: whatever a subscriber's queue holds when an event is published to it,
\* full or not, the queue ends with that event afterwards (on a full queue
\* the oldest entry makes room for it).
C7_NewestIsQueued ==
    [][\A e \in Published : \A c \in Subscribers(e.key.kind, e.key.ns) :
           /\ chq'[c] # <<>>
           /\ chq'[c][Len(chq'[c])].mid = e.mid]_vars

(* ------------------------------- C8 ----------------------------------- *)

\* The step goroutine p takes next inside the call it is in.
Continue(p) ==
    \/ MyRecreateCheck(p) \/ MySave(p) \/ MyNotifyAdded(p) \/ MyUpdateDelete(p)
    \/ MyNotifyModified(p) \/ MyDeleteRow(p) \/ MyNotifyDeleted(p)
    \/ EtPut(p) \/ EtNotify(p) \/ EtDeleteKey(p)

\* C8: a writer never waits for a subscriber.  Whatever the channel buffers
\* hold, a goroutine inside Create, Update or Delete can take its next step
\* (the notifying steps included), and on the memory backend, where a call
\* is one step, every call a goroutine may issue can be taken.
C8_WriterNeverWaits ==
    /\ \A p \in Procs : proc[p].pc # "idle" => ENABLED Continue(p)
    /\ backend = "memory"
       => \A p \in Procs : CanCall(p)
             => /\ \A k \in Keys : ENABLED MemCreate(p, k) /\ ENABLED MemDelete(p, k)
                /\ proc[p].cur # Nil => ENABLED MemUpdate(p)

\* A subscriber's buffer is full and it has read nothing, and a writer is
\* back from a mutation committed after everything the buffer holds: it
\* published to the full buffer and went on.
C8_WroteToFullQueue ==
    /\ backend = "memory"
    /\ \E c \in Chans, p \in Procs :
           /\ proc[p].pc = "idle" /\ proc[p].res = "ok" /\ proc[p].op \in WriteOps
           /\ c \in Subscribers(proc[p].key.kind, proc[p].key.ns)
           /\ Len(chq[c]) = WatchChanCap
           /\ got[c] = <<>>
           /\ \A i \in 1..Len(chq[c]) : chq[c][i].mid < proc[p].mid

(* ------------------------------- C9 ----------------------------------- *)

\* The events waiting in a subscriber's channel, as the subscriber would
\* read them now.
QueueView(c) ==
    [i \in 1..Len(chq[c]) |->
        [type |-> chq[c][i].type, obj |-> Deref(chq[c][i].obj),
         old |-> Deref(chq[c][i].old)]]

\* C9: a client that changes, in place and without calling Update, an
\* object it passed to Create/Update or got from Get changes neither what
\* is stored under any key (what Get and List load) nor the content of the
\* events on their way to the subscribers.
C9_NoSharedInstance ==
    [][\A p \in Procs :
           ClientModify(p)
           => /\ \A k \in Keys : StoredVal(k)' = StoredVal(k)
              /\ \A c \in Chans : QueueView(c)' = QueueView(c)]_vars

(* ------------------------------- C10 ---------------------------------- *)

\* C10: with no call in flight and goroutine p back from a successful
\* Create or Update that is the latest commit, a Get of the same key by any
\* goroutine finds the object and returns it with the resourceVersion and
\* uid that the Create/Update left on the object it was given.
C10_GetReturnsWritten ==
    [][\A p, q \in Procs :
           (/\ \A r \in Procs : proc[r].pc = "idle"
            /\ proc[p].op \in {"Create", "Update"}
            /\ proc[p].res = "ok"
            /\ proc[p].mid = commits
            /\ opsLeft' < opsLeft
            /\ proc'[q] # proc[q]
            /\ proc'[q].op = "Get"
            /\ proc'[q].key = proc[p].key)
           => /\ proc'[q].res = "ok"
              /\ heap'[proc'[q].cur].rv = heap[proc[p].obj].rv
              /\ heap'[proc'[q].cur].uid = heap[proc[p].obj].uid]_vars

(* ------------------------------- C11 ---------------------------------- *)

\* This step commits the Update of key k that goroutine p is in.
CommitsUpdate(p, k) ==
    /\ commits' = commits + 1
    /\ proc'[p].op = "Update"
    /\ proc'[p].mid = commits'
    /\ proc'[p].key = k

\* The stored version an Update is about to replace: what is stored under
\* the key, or, on the relational backend (which has deleted the old rows by
\* then), the old resource the Update loaded.
PriorVersion(p, k) ==
    IF backend = "mysql" THEN Deref(proc[p].old) ELSE StoredVal(k)

\* C11: a successful Update leaves the stored object with the uid and the
\* creationTimestamp of the version it replaces, whatever the object passed
\* to Update carries in those fields.
C11_UpdateKeepsIdentity ==
    [][\A p \in Procs, k \in WideKeys :
           CommitsUpdate(p, k)
           => /\ StoredVal(k)'.uid = PriorVersion(p, k).uid
              /\ StoredVal(k)'.ct = PriorVersion(p, k).ct]_vars

\* A step by which p's Create writes the object of identity k.
CommitsCreate(p, k) ==
    /\ commits' = commits + 1
    /\ proc'[p].op = "Create"
    /\ proc'[p].mid = commits'
    /\ proc'[p].key = k

\* C12: after a successful Create the stored object's uid, resourceVersion
\* and creationTimestamp are values the Store assigned: none of them is
\* empty and none of them is the value the client put into the manifest.
C12_CreateAssignsMetadata ==
    [][\A p \in Procs, k \in WideKeys :
           CommitsCreate(p, k)
           => /\ StoredVal(k)'.uid \notin {0, ClientStamp}
              /\ StoredVal(k)'.rv \notin {0, ClientStamp}
              /\ StoredVal(k)'.ct \notin {0, ClientStamp}]_vars

\* C13: Create of a Node never fails with AlreadyExists: when a Node of
\* that name is stored, the call overwrites it and succeeds.
C13_NodeCreateUpserts ==
    \A p \in Procs :
        (/\ proc[p].pc = "idle"
         /\ proc[p].op = "Create"
         /\ IsNode(proc[p].key.kind))
        => proc[p].res # "AlreadyExists"

\* The type of the one event MemoryStore emits for a successful call.
MemoryEventType(op) ==
    CASE op = "Create" -> EventAdded
      [] op = "Update" -> EventModified
      [] op = "Delete" -> EventDeleted

\* C14: on every backend one caller's sequence of calls gives a subscriber
\* the events MemoryStore gives it: each event has the type of the call it
\* reports, and each successful call is reported at most once, in order.
C14_BackendsAgree ==
    \A c \in Chans : \A i \in 1..Len(got[c]) :
        /\ got[c][i].type = MemoryEventType(got[c][i].op)
        /\ \A j \in 1..(i - 1) : got[c][j].mid < got[c][i].mid

(* ------------------------------- C15 ---------------------------------- *)

\* Goroutine p's store.Watch has returned and its stream is being served.
Watching(p) == proc[p].op = "Watch" /\ proc[p].pc \in {"bookmark", "stream"}

\* Channel c is among the subscribers of watchKey wk.
Registered(wk, c) == \E i \in 1..Len(watchers[wk]) : watchers[wk][i] = c

\* C15: Watch calls that run at the same time, or next to a mutation, all
\* end registered: the channel of every Watch that has returned is among
\* the subscribers of its watchKey.
C15_WatchEndsRegistered ==
    \A p \in Procs : Watching(p) => Registered(proc[p].data.wk, proc[p].data.ch)

(* ------------------------------- C16 ---------------------------------- *)

\* C16: once the gateway's watch stream has ended its subscription is
\* released: the channel is no longer among the subscribers of any
\* watchKey, so that no further event is queued on it.
C16_StreamEndReleases ==
    \A p \in Procs :
        (proc[p].pc = "idle" /\ proc[p].op = "Watch")
        => \A wk \in WatchKeys : ~Registered(wk, proc[p].data.ch)

(* ------------------------------- C17 ---------------------------------- *)

\* The resourceVersion the Store is at.  MemoryStore counts its writes; the
\* other two stamp clock readings, and have one once something was written.
IsCurrentVersion(rv) ==
    IF backend = "memory" THEN rv = version ELSE (commits > 0 => rv # 0)

\* C17: the Bookmark that opens a watch stream carries the Store's current
\* resourceVersion.
C17_BookmarkCarriesVersion ==
    [][\A p \in Procs :
           HandleWatchBookmark(p)
           => IsCurrentVersion(got'[proc[p].data.ch][Len(got'[proc[p].data.ch])].obj.rv)]_vars

(* ------------------------------- C18 ---------------------------------- *)

\* The object pointer q names when the heap is h.
ObjectIn(h, q) ==
    IF "val" \in DOMAIN q THEN q.val ELSE h[q.ref]

\* The step offers the event of commit e to channel c: with room in the
\* buffer the event is queued behind what the buffer held.
Offered(c, e) ==
    Len(chq[c]) < WatchChanCap
    => /\ Len(chq'[c]) = Len(chq[c]) + 1
       /\ chq'[c][Len(chq'[c])].mid = e.mid
       /\ KeyOf(ObjectIn(heap', chq'[c][Len(chq'[c])].obj)) = e.key

\* C18: a subscription made with namespace "" is offered the events of its
\* kind from every namespace; one made with a namespace is offered those of
\* that namespace and no others.
C18_NamespaceRouting ==
    [][\A e \in Published : \A wk \in WatchKeys, c \in AllChans :
           (Registered(wk, c) /\ wk.kind = e.key.kind)
           => IF wk.ns = "" \/ wk.ns = e.key.ns
              THEN Offered(c, e)
              ELSE chq'[c] = chq[c]]_vars

\* A subscriber of all namespaces has read events of both namespaces.
C18_GlobalSawBoth ==
    \E c \in AllChans :
        /\ Registered([kind |-> "Pod", ns |-> ""], c)
        /\ \E i, j \in 1..Len(got[c]) : /\ got[c][i].obj.ns = "default"
                                         /\ got[c][j].obj.ns = OtherNamespace

(* ------------------------------- C19 ---------------------------------- *)

\* Goroutine p's step is its call of Update for identity k.
UpdateCalled(p, k) ==
    /\ opsLeft' = opsLeft - 1
    /\ proc'[p].op = "Update"
    /\ proc'[p].key = k

\* C19: an Update for an identity under which nothing is stored fails with
\* NotFound in that step, leaves what the backend holds as it was, and
\* queues no event.
C19_UpdateAbsentNotFound ==
    [][\A p \in Procs, k \in WideKeys :
           (UpdateCalled(p, k) /\ ~Exists(k))
           => /\ proc'[p].pc = "idle"
              /\ proc'[p].res = "NotFound"
              /\ <<resources, version, table, kv, watchChan>>'
                     = <<resources, version, table, kv, watchChan>>
              /\ chq' = chq
              /\ commits' = commits]_vars

\* An Update came back NotFound while another identity of the same name
\* was stored.
C19_UpdateRefused ==
    \E p \in Procs :
        /\ proc[p].pc = "idle" /\ proc[p].op = "Update" /\ proc[p].res = "NotFound"
        /\ ~Exists(proc[p].key)
        /\ \E k \in WideKeys : k # proc[p].key /\ k.name = proc[p].key.name /\ Exists(k)

(* ------------------------------- C20 ---------------------------------- *)

\* Goroutine p is back from the Store call of a create or update request.
Answered(p) ==
    proc[p].pc = "idle" /\ proc[p].op \in {"Create", "Update"} /\ proc[p].res # "none"

\* C20: the gateway answers 409 when and only when the Store reported
\* AlreadyExists, 404 when and only when it reported NotFound, and 500 for
\* any other failure.
C20_StatusByFailure ==
    \A p \in Procs :
        Answered(p)
        => /\ ResponseStatus(p) = 409 <=> proc[p].res = "AlreadyExists"
           /\ ResponseStatus(p) = 404 <=> proc[p].res = "NotFound"
           /\ proc[p].res \notin {"ok", "AlreadyExists", "NotFound"}
              => ResponseStatus(p) = 500

(* ------------------------------- C21 ---------------------------------- *)

\* Goroutine p serves, or has served, a watch request.
Streamed(p) == proc[p].op = "Watch" /\ proc[p].pc \in {"stream", "idle"}

\* C21: a watch stream next to which Pods are created and deleted opens
\* with the one Bookmark, then carries one Added for each Create and one
\* Deleted for each Delete and nothing else, and a Deleted carries the
\* object the Added of that Pod carried.
C21_StreamOfCreateDelete ==
    \A p \in Procs :
        Streamed(p)
        => LET s == got[proc[p].data.ch]
           IN /\ \A i \in 1..Len(s) : s[i].type = EventBookmark <=> i = 1
              /\ \A i \in 2..Len(s) :
                     /\ s[i].type = MemoryEventType(s[i].op)
                     /\ \A j \in 2..(i - 1) :
                            /\ s[j].mid # s[i].mid
                            /\ (/\ s[j].type = EventAdded
                                /\ s[i].type = EventDeleted
                                /\ KeyOf(s[j].obj) = KeyOf(s[i].obj))
                               => s[i].obj = s[j].obj

(* ------------------------------- C26 ---------------------------------- *)

\* C26: merging the same patch a second time changes nothing: every later
\* result equals the first.
C26_PatchIdempotent ==
    \A i \in 2..Len(result) : result[i] = result[1]

\* C27: for every supported resource kind, the (GroupVersionKind, namespace)
\* the gateway reads from the URL built for a manifest is the manifest's own.
CoreV1 == [group : {""}, version : {"v1"},
           kind : {"Pod", "Service", "ConfigMap", "Secret", "Node"}]
AppsV1 == [group : {"apps"}, version : {"v1"},
           kind : {"Deployment", "StatefulSet", "DaemonSet"}]

C27_ParseInvertsBuild ==
    (Len(result) = 2 /\ args.gvk \in CoreV1 \cup AppsV1)
        => result[2] = [gvk |-> args.gvk, ns |-> args.ns]

\* C28: a step of the network discovery service leaves a stored Node that
\* does not carry the managed label as it is.
C28_UnmanagedNodeUntouched ==
    [][(/\ proc'[NetService] # proc[NetService]
        /\ Exists(NodeKey)
        /\ StoredVal(NodeKey).label # "managed")
       => StoredVal(NodeKey)' = StoredVal(NodeKey)]_vars

\* The node the controller manager runs on (NODE_NAME, else the hostname).
ConfiguredNode == "n1"

StartsOf(k) ==
    {i \in 1..Len(driver.calls) :
        driver.calls[i].fn = "StartContainer" /\ driver.calls[i].key = k}

\* C24: the container of a Pod that was created once is started at most
\* once, however the initial walk over the stored Pods, the event loop and
\* the other controller's Updates interleave.
C24_StartedOnce ==
    \A k \in Keys : Cardinality(StartsOf(k)) <= 1

PodReadyRunning(v) == v # NoVal /\ v.phase = "Running" /\ v.ready = "True"

\* C25: a stored Pod that is Running with PodReady True stays so from one
\* step to the next while its container runs and the Pod is stored.
C25_RunningStays ==
    [][\A k \in Keys :
          (/\ PodReadyRunning(StoredVal(k))
           /\ k \in driver.running
           /\ k \in driver'.running
           /\ StoredVal(k)' # NoVal)
          => PodReadyRunning(StoredVal(k)')]_vars

\* C29: the Pod controller does not answer the event of one of its own
\* Updates with another Update; a controller that does goes on for ever
\* without any client.
C29_NoUpdateOnOwnEcho ==
    [][~(/\ proc[PodLoop].op # "Update"
         /\ proc'[PodLoop].op = "Update"
         /\ ctl[PodLoop].mid \in ctl[PodLoop].own)]_vars

\* C30: every StartContainer and StopContainer is for a Pod whose
\* spec.nodeName is the node the controllers run on.
C30_OwnNodeOnly ==
    \A i \in 1..Len(driver.calls) : driver.calls[i].node = ConfiguredNode

(* ------------------------------- C22 ---------------------------------- *)

\* Nothing is under way and nothing is left to deliver: the gateway has
\* answered, Start's synchronisation is over, the event loop waits at its
\* select, and no event is in the channel or on the native watch stream.
Quiescent ==
    /\ \A p \in DeployProcs : proc[p].pc = "idle"
    /\ ctl[DeployStart].at = "done" \/ Synced(DeployStart)
    /\ AtDeploySelect
    /\ chq["w1"] = <<>>
    /\ watchChan = <<>>

\* C22: after a Deployment was created through POST on the gateway, listing
\* the Pods of its namespace through the gateway eventually returns
\* spec.replicas Pods carrying the selector's labels.  Stated on the final
\* result: once the POST has been answered 201, no other request was made
\* and the controllers have nothing left to do, the gateway lists
\* spec.replicas Pods of the Deployment.
C22_GatewayListsReplicas ==
    (/\ Quiescent
     /\ proc[Gateway].op = "Create"
     /\ proc[Gateway].res = "ok"
     /\ proc[Gateway].key = DeployKey)
    => Cardinality(deploymentPods(GatewayView, GatewayView[DeployKey]))
           = GatewayView[DeployKey].replicas

(* ------------------------------- C23 ---------------------------------- *)

\* C23: for a Deployment with replicas = N that keeps existing, after any
\* finite sequence of Deployment updates and Pod creations and deletions by
\* other actors the number of Pods the Deployment claims is eventually N.
\* Stated on the final result: when the controller has synchronised the
\* Deployment with the replicas now stored and nothing is left to do, the
\* Deployment claims N stored Pods.
C23_ClaimedEqualsReplicas ==
    (/\ Quiescent
     /\ Exists(DeployKey)
     /\ \E g \in {DeployLoop, DeployStart} :
           /\ ctl[g].d # NoVal
           /\ ctl[g].d.replicas = StoredVal(DeployKey).replicas)
    => Cardinality(deploymentPods(ControllerView, StoredVal(DeployKey)))
           = StoredVal(DeployKey).replicas

(* ------------------------------- C31 ---------------------------------- *)

\* C31: for a Deployment whose replicas N does not change and whose Pods
\* nobody else creates or deletes, the number of Pods it claims never
\* exceeds N, whatever the interleaving of Start's synchronisation and the
\* event loop.  The POST of the Deployment is the gateway's only request
\* as long as it is the gateway's last call.
C31_NeverMoreThanReplicas ==
    (/\ proc[Gateway].op = "Create"
     /\ proc[Gateway].key = DeployKey
     /\ Exists(DeployKey))
    => Cardinality(deploymentPods(ControllerView, StoredVal(DeployKey)))
           <= StoredVal(DeployKey).replicas

(* ------------------------------- C34 ---------------------------------- *)

\* C34: reconciling Deployment D never deletes a Pod whose controller
\* ownerReference names another Deployment: a step that removes such a Pod
\* from the store is no step of the Deployment controller's goroutines.
C34_ForeignPodKept ==
    [][\A k \in DeployKeys :
          (/\ k.kind = "Pod"
           /\ StoredVal(k) # NoVal
           /\ StoredVal(k).owner = OtherDeployName
           /\ StoredVal(k)' = NoVal)
          => \A g \in {DeployLoop, DeployStart} : proc'[g] = proc[g]]_vars


\* C39: when a node report of the controller manager has returned without an
\* error and the stored Node is the one it wrote, that Node's NodeReady
\* condition is True.
C39_HeartbeatMakesReady ==
    (/\ proc[NodeReporter].pc = "idle"
     /\ proc[NodeReporter].op \in {"Create", "Update"}
     /\ proc[NodeReporter].res = "ok"
     /\ Exists(NodeKey)
     /\ StoredVal(NodeKey).label = "hostname")
        => StoredVal(NodeKey).ready = "True"


(* ------------------------ Pod status writers -------------------------- *)
\* The three functions that write status.conditions of a Pod, each applied
\* to one Pod: the Pod controller's syncPod, the scheduler's schedulePod
\* and the Runtime controller's handlePod.  Here a Pod is spec.nodeName
\* (node), status.phase, status.containerStatuses (crs, each with its ready
\* flag and its state) and status.conditions (conds, each with type, status
\* and lastTransitionTime); spare is cap(conds) - len(conds) of the slice.

MaxConds == 2
MaxSpare == 2

CondTypes == {"PodScheduled", "Initialized", "Ready", "ContainersReady"}
Conds == [type : CondTypes, status : {"True", "False"}, ltt : {"old"}]
CondLists ==
    {cs \in UNION {[1..n -> Conds] : n \in 0..MaxConds} :
        \A i, j \in 1..Len(cs) : cs[i].type = cs[j].type => i = j}
ContainerStatusLists ==
    {<<>>} \cup {<<c>> : c \in [ready : BOOLEAN, state : {"running", "waiting"}]}
StatusPods ==
    [node : {"", "n1"}, phase : {"", "Pending", "Running"},
     crs : ContainerStatusLists, conds : CondLists, spare : 0..MaxSpare]

\* conditions[T] of the map built from the slice: the last element of type T.
CondIndex(cs, T) ==
    IF \E i \in 1..Len(cs) : cs[i].type = T
    THEN CHOOSE i \in 1..Len(cs) : cs[i].type = T /\ \A j \in (i + 1)..Len(cs) : cs[j].type # T
    ELSE 0

\* One block of updatePodConditions.  A condition found with status True is
\* left alone.  One found otherwise is written through the pointer into
\* the slice as it was on entry, which an append that had to reallocate
\* has left behind (stale).  One not found is made locally and a copy of
\* it, with no status yet, is appended; the status goes to the local one.
setCondition(st, orig, T, status) ==
    LET i == CondIndex(orig, T)
    IN IF i # 0 /\ orig[i].status = "True" THEN st
       ELSE IF i # 0
            THEN IF st.stale THEN st
                 ELSE [st EXCEPT !.conds[i].status = status, !.conds[i].ltt = "now"]
            ELSE [conds |-> Append(st.conds, [type |-> T, status |-> "", ltt |-> "now"]),
                  stale |-> st.stale \/ st.spare = 0,
                  spare |-> IF st.spare = 0 THEN 0 ELSE st.spare - 1]

allContainersReady(pod) == \A i \in 1..Len(pod.crs) : pod.crs[i].ready

\* updatePodConditions: PodScheduled and Initialized for a Pod with a node
\* name, then Ready from the container statuses and the phase.
updateConditionList(pod) ==
    LET st0 == [conds |-> pod.conds, stale |-> FALSE, spare |-> pod.spare]
        st1 == IF pod.node # "" THEN setCondition(st0, pod.conds, "PodScheduled", "True") ELSE st0
        st2 == IF pod.node # "" THEN setCondition(st1, pod.conds, "Initialized", "True") ELSE st1
        st3 == setCondition(st2, pod.conds, "Ready",
                            IF allContainersReady(pod) /\ pod.phase = "Running"
                            THEN "True" ELSE "False")
    IN [pod EXCEPT !.conds = st3.conds, !.spare = st3.spare]

\* updatePodPhase of a Pod without deletionTimestamp whose containers are
\* running or waiting.
updatePhaseOf(pod) ==
    [pod EXCEPT !.phase = IF \E i \in 1..Len(pod.crs) : pod.crs[i].state = "running"
                          THEN "Running" ELSE "Pending"]

\* schedulePod's changes to the Pod before store.Update.
schedulePodStatus(pod, n) ==
    [pod EXCEPT !.node = n, !.phase = "Pending",
                !.conds = <<[type |-> "PodScheduled", status |-> "True", ltt |-> "now"]>>,
                !.spare = 0]

\* handlePod's changes to the Pod before store.Update.
handlePodStatusOf(pod) ==
    [pod EXCEPT !.phase = "Running",
                !.crs = <<[ready |-> TRUE, state |-> "running"]>>,
                !.conds = <<[type |-> "Ready", status |-> "True", ltt |-> "now"]>>,
                !.spare = 0]

StatusInit ==
    /\ EmptyStore(WideKeys)
    /\ watchers = Unwatched
    /\ AllIdle(Procs, AllChans, MaxOps)
    /\ driver = NoDriver
    /\ args \in StatusPods
    /\ result = <<>>
    /\ ctl = NoVal
    /\ gateway = NoVal

StatusDone(fn, pod) ==
    /\ result = <<>>
    /\ result' = <<[fn |-> fn, pod |-> pod]>>
    /\ UNCHANGED <<gateway, backend, heap, storeVars, watchers, chq, got, proc, opsLeft, commits,
                   driver, args, ctl>>

\* PodController, case EventModified.
syncPodStatus == StatusDone("syncPod", updatePhaseOf(updateConditionList(args)))

\* The scheduler takes a Pending Pod without a node name.
schedulePod ==
    /\ args.node = ""
    /\ args.phase = "Pending"
    /\ StatusDone("schedulePod", schedulePodStatus(args, "n1"))

\* The Runtime controller takes a Pod with a node name that is not Running.
handlePod ==
    /\ args.node # ""
    /\ args.phase # "Running"
    /\ StatusDone("handlePod", handlePodStatusOf(args))

StatusNext == syncPodStatus \/ schedulePod \/ handlePod

SpecStatus == StatusInit /\ [][StatusNext]_vars

\* C36: after syncPod the Pod has a Ready condition whose status is True when
\* every container status is ready and the phase is Running, and False
\* otherwise; stated for a Pod whose phase syncPod did not change.
C36_ReadyFollowsContainers ==
    (/\ result # <<>>
     /\ result[1].fn = "syncPod"
     /\ result[1].pod.phase = args.phase)
        => LET pod == result[1].pod
               i == CondIndex(pod.conds, "Ready")
           IN /\ i # 0
              /\ pod.conds[i].status = IF allContainersReady(pod) /\ pod.phase = "Running"
                                       THEN "True" ELSE "False"


\* C38: syncPod gives a condition a new lastTransitionTime only when it gives
\* it another status.
C38_TransitionTimeOnFlip ==
    (/\ result # <<>>
     /\ result[1].fn = "syncPod")
        => \A i \in 1..Len(args.conds) :
              result[1].pod.conds[i].status = args.conds[i].status
                 => result[1].pod.conds[i].ltt = args.conds[i].ltt


\* C37: a condition of another type than the writer's own (PodScheduled for
\* schedulePod, Ready for handlePod) is still there, with the status it had,
\* in the Pod the writer hands to store.Update.
C37_OtherConditionsKept ==
    (/\ result # <<>>
     /\ result[1].fn \in {"schedulePod", "handlePod"})
        => LET own == IF result[1].fn = "schedulePod" THEN "PodScheduled" ELSE "Ready"
               after == result[1].pod.conds
           IN \A i \in 1..Len(args.conds) :
                 args.conds[i].type # own
                    => \E j \in 1..Len(after) :
                          /\ after[j].type = args.conds[i].type
                          /\ after[j].status = args.conds[i].status


(* ------------------ Runtime controller and its driver ----------------- *)
\* RuntimeController.processPods alone with the driver that was detected,
\* DockerRuntime: clients create Pods bound to a node, with a container
\* list that may be empty, and delete them; the driver's calls may fail.
\* result is the log of the errors the loop has written.

MaxRuntimeOps == 4

RuntimePodVal(k, c) ==
    [kind |-> k.kind, ns |-> k.ns, name |-> k.name, rv |-> 0, uid |-> 0, ct |-> 0,
     label |-> "x", node |-> "n1", phase |-> "Pending", ready |-> "", cs |-> "",
     containers |-> c]

\* A StartContainer that went on to the container runtime whatever the Pod
\* holds.
StartErrorsUnchecked(pod) == {TRUE, FALSE}

\* DockerRuntime.StartContainer: an error for a Pod without containers,
\* before anything else; otherwise docker run, which may fail.
StartErrors(pod) == IF pod.containers = 0 THEN {TRUE} ELSE {TRUE, FALSE}

LogError(g, what) == Append(result, [log |-> what, key |-> KeyOf(heap[ctl[g].obj])])

\* handlePod: runtime.StartContainer; its error is handed back to the loop,
\* which logs it and goes on.
dockerStartContainer ==
    /\ ctl[RuntimeLoop].at = "start"
    /\ LET pod == heap[ctl[RuntimeLoop].obj]
       IN \E err \in StartErrors(pod) :
             /\ driver' = [running |-> IF err THEN driver.running
                                       ELSE driver.running \cup {KeyOf(pod)},
                           calls |-> Append(driver.calls,
                                        [fn |-> "StartContainer", key |-> KeyOf(pod),
                                         node |-> pod.node])]
             /\ ctl' = [ctl EXCEPT ![RuntimeLoop].at = IF err THEN "loop" ELSE "status"]
             /\ result' = IF err THEN LogError(RuntimeLoop, "start") ELSE result
    /\ UNCHANGED <<gateway, args, backend, heap, storeVars, watchers, chq, got, proc, opsLeft,
                   commits>>

\* handlePod builds the container status from pod.Spec.Containers[0]: an
\* index out of range, which nothing recovers, when the list is empty.
handlePodBuild ==
    /\ ctl[RuntimeLoop].at = "status"
    /\ ctl' = [ctl EXCEPT ![RuntimeLoop].at =
                  IF heap[ctl[RuntimeLoop].obj].containers = 0 THEN "panic" ELSE "update"]
    /\ UNCHANGED <<gateway, driver, args, result, backend, heap, storeVars, watchers, chq, got,
                   proc, opsLeft, commits>>

\* store.Update has returned: handlePod hands its error to the loop, which
\* logs it, and the loop is at its select again.
handlePodReturn ==
    /\ ctl[RuntimeLoop].at = "update"
    /\ After(RuntimeLoop, "Update")
    /\ ctl' = [ctl EXCEPT ![RuntimeLoop].at = "loop"]
    /\ result' = IF proc[RuntimeLoop].res # "ok" THEN LogError(RuntimeLoop, "update") ELSE result
    /\ UNCHANGED <<gateway, driver, args, backend, heap, storeVars, watchers, chq, got, proc,
                   opsLeft, commits>>

RuntimeRecv ==
    /\ ctl[RuntimeLoop].at = "loop"
    /\ CtlRecv(RuntimeLoop, "w2")

RuntimeClientCreate ==
    /\ proc[Caller].pc = "idle"
    /\ \E k \in Keys, c \in {0, 1} : StoreCreate(Caller, RuntimePodVal(k, c))

RuntimeClientDelete ==
    /\ proc[Caller].pc = "idle"
    /\ \E k \in Keys : StoreDelete(Caller, k)

RuntimeInit ==
    /\ EmptyStore(WideKeys)
    /\ watchers = [Unwatched EXCEPT ![[kind |-> "Pod", ns |-> ""]] = <<"w2">>]
    /\ AllIdle(PodsProcs, AllChans, MaxRuntimeOps)
    /\ driver = NoDriver
    /\ args = NoVal
    /\ result = <<>>
    /\ ctl = [g \in {PodLoop, RuntimeLoop, RuntimeSync} |->
                 AtLoop(IF g = RuntimeLoop THEN "loop" ELSE "done")]
    /\ gateway = NoVal

RuntimeNext ==
    \/ RuntimeRecv
    \/ dockerStartContainer
    \/ handlePodBuild
    \/ handlePodUpdate(RuntimeLoop)
    \/ handlePodReturn
    \/ StopContainer
    \/ RuntimeClientCreate
    \/ RuntimeClientDelete
    \/ \E p \in {Caller, RuntimeLoop} : StoreStep(p)
    \/ StoreDeleteStep(Caller)
    \/ startWatcher

SpecRuntime == RuntimeInit /\ [][RuntimeNext]_vars

\* C40: whatever a Pod holds and whatever the driver and the Store answer,
\* the Runtime controller's loop is never ended by a handler: it is at its
\* select or inside a handler that returns.
C40_LoopSurvives == ctl[RuntimeLoop].at \in {"loop", "start", "status", "update", "stop"}

\* The loop has logged the failed start of a Pod without containers and has
\* then taken the event of that Pod's deletion.
C40_FailedAndWentOn ==
    /\ ctl[RuntimeLoop].at = "stop"
    /\ heap[ctl[RuntimeLoop].obj].containers = 0
    /\ \E i \in 1..Len(result) :
          /\ result[i].log = "start"
          /\ result[i].key = KeyOf(heap[ctl[RuntimeLoop].obj])


(* ------------------------- Concurrent PATCHes ------------------------- *)
\* Two requests PATCH one stored resource, each in a goroutine of the
\* gateway: the first changes the field a of the document (the label of the
\* object), the second the field b (ann).  The resource is created by the
\* first client before its PATCH.

MaxPatchOps == 5

PatchedKey == [kind |-> "Pod", ns |-> "default", name |-> "a"]

PatchedVal ==
    [kind |-> PatchedKey.kind, ns |-> PatchedKey.ns, name |-> PatchedKey.name,
     rv |-> 0, uid |-> 0, ct |-> 0, label |-> "1", ann |-> "1"]

\* The request bodies.
PatchBody(p) == IF p = "p1" THEN [k \in {"a"} |-> JStr("2")] ELSE [k \in {"b"} |-> JStr("2")]

\* json.Marshal and json.Unmarshal of the object into objMap.
objMap(v) == [k \in PatchKeys |-> JStr(IF k = "a" THEN v.label ELSE v.ann)]

\* json.Marshal of the merged map and ParseYAML: a new object.
patchedObj(v, m) ==
    [v EXCEPT !.label = IF "a" \in DOMAIN m /\ m["a"].t = "str" THEN m["a"].v ELSE "",
              !.ann = IF "b" \in DOMAIN m /\ m["b"].t = "str" THEN m["b"].v ELSE ""]

PatchSeed ==
    /\ proc["p1"].op = "none"
    /\ StoreCreate("p1", PatchedVal)

\* HandlePatch: store.Get; a 404 ends the request, and the client may send
\* it again.
HandlePatchGet(p) ==
    /\ proc[p].pc = "idle"
    /\ \/ proc[p].op = (IF p = "p1" THEN "Create" ELSE "none")
       \/ proc[p].op = "Get" /\ proc[p].res = "NotFound"
    /\ StoreGet(p, PatchedKey)

\* HandlePatch: the body is merged into what Get returned and the result is
\* handed to store.Update.
HandlePatchUpdate(p) ==
    /\ After(p, "Get")
    /\ proc[p].res = "ok"
    /\ LET obj == heap[proc[p].cur]
       IN StoreUpdate(p, patchedObj(obj, mergePatch(objMap(obj), PatchBody(p))))

PatchRaceInit ==
    /\ EmptyStore(WideKeys)
    /\ watchers = Unwatched
    /\ AllIdle(Procs, AllChans, MaxPatchOps)
    /\ driver = NoDriver
    /\ args = NoVal
    /\ result = <<>>
    /\ ctl = NoVal
    /\ gateway = NoVal

PatchRaceNext ==
    \/ PatchSeed
    \/ \E p \in Procs : HandlePatchGet(p)
    \/ \E p \in Procs : HandlePatchUpdate(p)
    \/ \E p \in Procs : StoreStep(p)
    \/ startWatcher

SpecPatchRace == PatchRaceInit /\ [][PatchRaceNext]_vars

\* C35: when both PATCH requests have been answered 200, the stored resource
\* carries the change of each.
C35_BothPatchesApplied ==
    (\A p \in Procs : After(p, "Update") /\ proc[p].res = "ok")
        => /\ Exists(PatchedKey)
           /\ StoredVal(PatchedKey).label = "2"
           /\ StoredVal(PatchedKey).ann = "2"


(* --------------------------- Scheduler -------------------------------- *)
\* SchedulerController.Start subscribes to all Pods, starts processPods in
\* a goroutine and then walks the stored Pods itself (syncPendingPods).
\* Clients create a Pending Pod without a node name and a Node that is not
\* Ready, and report the Node Ready later.

MaxSchedOps == 5

SchedLoop == "sl"
SchedSync == "ss"
SchedProcs == {Caller, SchedLoop, SchedSync}

SchedPodKey == [kind |-> "Pod", ns |-> "default", name |-> "a"]
PendingPod == [PodVal(SchedPodKey, "") EXCEPT !.phase = "Pending", !.ready = "False"]

\* The test syncPendingPods and processPods make on the Pod they hold.
Unscheduled(pod) == pod.node = "" /\ pod.phase = "Pending"

\* isNodeReady of the one Node that may be stored.
ReadyNodes == IF Exists(NodeKey) /\ StoredVal(NodeKey).ready = "True" THEN {NodeKey.name} ELSE {}

\* processPods, case event := <-watchCh: an Added or Modified event whose
\* Pod passes the test goes to schedulePod.
schedRecv ==
    /\ AtSelect(SchedLoop)
    /\ chq["w1"] # <<>>
    /\ LET ev == Head(chq["w1"])
           fresh == "val" \in DOMAIN ev.obj
           pod == Deref(ev.obj)
           to == IF ev.type \in {EventAdded, EventModified} /\ Unscheduled(pod)
                 THEN "list" ELSE "loop"
       IN /\ heap' = IF fresh THEN Append(heap, ev.obj.val) ELSE heap
          /\ ctl' = [ctl EXCEPT ![SchedLoop].at = to, ![SchedLoop].type = ev.type,
                                ![SchedLoop].obj = IF fresh THEN Len(heap) + 1 ELSE ev.obj.ref,
                                ![SchedLoop].mid = ev.mid]
    /\ chq' = [chq EXCEPT !["w1"] = Tail(@)]
    /\ proc' = [proc EXCEPT ![SchedLoop].op = "none"]
    /\ UNCHANGED <<gateway, driver, args, result, backend, storeVars, watchers, got, opsLeft, commits>>

\* syncPendingPods: store.List of the Pods and the test of the Pod found.
schedSync ==
    /\ ctl[SchedSync].at = "init"
    /\ IF ~Exists(SchedPodKey) \/ ~Unscheduled(StoredVal(SchedPodKey))
       THEN /\ ctl' = [ctl EXCEPT ![SchedSync].at = "done"]
            /\ UNCHANGED heap
       ELSE /\ heap' = IF backend = "memory" THEN heap ELSE Append(heap, StoredVal(SchedPodKey))
            /\ ctl' = [ctl EXCEPT ![SchedSync].at = "list",
                                  ![SchedSync].obj = IF backend = "memory"
                                                     THEN resources[SchedPodKey]
                                                     ELSE Len(heap) + 1]
    /\ UNCHANGED <<gateway, driver, args, result, backend, storeVars, watchers, chq, got, proc,
                   opsLeft, commits>>

\* schedulePod: store.List of the Nodes; without a Ready one the error goes
\* back to the caller, which logs it and leaves the Pod.
schedulePodList(g) ==
    /\ ctl[g].at = "list"
    /\ ctl' = [ctl EXCEPT ![g].at = IF ReadyNodes # {} THEN "update"
                                    ELSE IF g = SchedLoop THEN "loop" ELSE "done"]
    /\ UNCHANGED <<gateway, driver, args, result, backend, heap, storeVars, watchers, chq, got,
                   proc, opsLeft, commits>>

\* schedulePod: node name, phase and conditions are written into the Pod held
\* and the Pod goes to store.Update.
schedulePodUpdate(g) ==
    /\ ctl[g].at = "update"
    /\ proc[g].op # "Update"
    /\ StoreUpdateOf(g, ctl[g].obj,
                     [heap EXCEPT ![ctl[g].obj] =
                         [@ EXCEPT !.node = NodeKey.name, !.phase = "Pending", !.ready = ""]])

SchedClientPod ==
    /\ proc[Caller].pc = "idle"
    /\ ~Exists(SchedPodKey)
    /\ StoreCreate(Caller, PendingPod)

SchedClientNode ==
    /\ proc[Caller].pc = "idle"
    /\ ~Exists(NodeKey)
    /\ StoreCreate(Caller, [NodeVal("hostname") EXCEPT !.ready = "False"])

\* The Node is reported Ready.
SchedNodeReady ==
    /\ proc[Caller].pc = "idle"
    /\ Exists(NodeKey)
    /\ StoredVal(NodeKey).ready = "False"
    /\ StoreUpdate(Caller, [NodeVal("hostname") EXCEPT !.ready = "True"])

SchedInit ==
    /\ EmptyStore(WideKeys)
    /\ watchers = [Unwatched EXCEPT ![[kind |-> "Pod", ns |-> ""]] = <<"w1">>]
    /\ AllIdle(SchedProcs, AllChans, MaxSchedOps)
    /\ driver = NoDriver
    /\ args = NoVal
    /\ result = <<>>
    /\ ctl = [g \in {SchedLoop, SchedSync} |-> AtLoop(IF g = SchedSync THEN "init" ELSE "loop")]
    /\ gateway = NoVal

SchedNext ==
    \/ schedRecv
    \/ schedSync
    \/ \E g \in {SchedLoop, SchedSync} : schedulePodList(g)
    \/ \E g \in {SchedLoop, SchedSync} : schedulePodUpdate(g)
    \/ SchedClientPod
    \/ SchedClientNode
    \/ SchedNodeReady
    \/ \E p \in SchedProcs : StoreStep(p)
    \/ startWatcher

SpecSched == SchedInit /\ [][SchedNext]_vars

\* C32: a step of a scheduler goroutine leaves a stored Pod whose node name
\* is set as it is.
C32_AssignedPodUntouched ==
    [][(/\ \E g \in {SchedLoop, SchedSync} : proc'[g] # proc[g]
        /\ Exists(SchedPodKey)
        /\ StoredVal(SchedPodKey).node # "")
       => StoredVal(SchedPodKey)' = StoredVal(SchedPodKey)]_vars

SchedQuiescent ==
    /\ \A p \in SchedProcs : proc[p].pc = "idle"
    /\ AtSelect(SchedLoop)
    /\ \/ ctl[SchedSync].at = "done"
       \/ ctl[SchedSync].at = "update" /\ After(SchedSync, "Update")
    /\ chq["w1"] = <<>>
    /\ watchChan = <<>>

============================================================================
